---------------------------- MODULE Spec2Model ----------------------------
(***************************************************************************)
(* Model of the audio stream proxy: the identifier normalizer              *)
(* (youtube_proxy.extract_video_id), the resolver cascade                  *)
(* (youtube_proxy.get_audio_stream) and the download/cache manager         *)
(* (stream_proxy.ensure_audio_file with its janitor).                      *)
(*                                                                         *)
(* Strings are sequences of one-character strings so that the regular      *)
(* expressions and slices of the source can be computed.                   *)
(***************************************************************************)
EXTENDS Integers, Sequences, FiniteSets, TLC

VARIABLES
    \* ---- normalizer harness (extract_video_id applied to one input)
    normReq,      \* the request the input text is built from
    normOut,      \* the value extract_video_id returned
    normPc,       \* "ready" | "done"
    \* ---- selector harness (_select_stream applied to one list of renditions)
    selStreams,   \* the list of renditions
    selQuality,   \* the quality tier
    selOut,       \* the value _select_stream returned
    selPc,        \* "ready" | "done"
    \* ---- bitrate harness (_bitrate_to_int applied to one value)
    brIn,         \* the value of a rendition's "bitrate" key
    brOut,        \* the value _bitrate_to_int returned
    brPc,         \* "ready" | "done"
    \* ---- resolver cascade (one get_audio_stream call)
    casPc,        \* "idle" | the adapter that runs ("piped", "invidious", "ytdlp") | "done"
    casQuality,   \* the quality tier of the call
    casInst,      \* index of the next instance the running adapter queries
    casLog,       \* adapters/instances queried so far, in order
    casResult,    \* the returned dict, or None
    \* ---- download/cache manager (ensure_audio_file callers, executor threads, janitor)
    now,          \* time.time()
    files,        \* the cache directory: path -> file or NoFile
    locks,        \* download_locks: id -> lock, for the ids that have an entry
    pc,           \* per caller: position of its ensure_audio_file coroutine
    thr,          \* per caller: state of the executor thread its call awaits
    raw,          \* per caller: the video_id argument of its call
    vid,          \* per caller: extract_video_id(video_id)
    result,       \* per caller: the returned path, or None
    ret,          \* per caller: the exit path the call took
    order,        \* per caller: "first" call for its id, "second" one begun while the
                  \* first was running, or "other"
    entered,      \* per caller: the call entered the strategy chain
    cancels,      \* handler tasks cancelled so far
    janitor,      \* clear_expired_cache: its position in a cycle
    dirOk,        \* CACHE_DIR.mkdir(parents=True, exist_ok=True) succeeds
    reply,        \* per caller: the HTTP response of the handler that made the call
    \* ---- the web application (stream_proxy.create_app or server.main)
    app,          \* the entry point that built the application: "stream_proxy" | "server"
    mcp,          \* server.mcp_process: "none" | "running" | "exited"
    health,       \* the response to the last GET /health
    sup,          \* server.start_mcp_pipe: the position of the task, restart_count
    shut,         \* server.cleanup_background_tasks: "no" | "awaiting" | "done"
    \* ---- JSON-RPC request loop (main of calculator.py and of music_streamer.py)
    rpcIn,        \* the lines of stdin not read yet
    rpcOut,       \* the responses written to stdout, in order
    rpcId,        \* the local variable request_id
    rpcPc         \* "serving" | "stopped"

normVars == <<normReq, normOut, normPc>>
selVars == <<selStreams, selQuality, selOut, selPc>>
casVars == <<casPc, casQuality, casInst, casLog, casResult>>
cacheVars == <<now, files, locks, pc, thr, raw, vid, result, ret, order, entered,
               cancels, janitor, dirOk, reply>>
srvVars == <<app, mcp, health, sup, shut>>
brVars == <<brIn, brOut, brPc>>
rpcVars == <<rpcIn, rpcOut, rpcId, rpcPc>>
vars == <<normVars, selVars, casVars, cacheVars, srvVars, brVars, rpcVars>>

-----------------------------------------------------------------------------
(***************************************************************************)
(* Strings                                                                 *)
(***************************************************************************)
Min(S) == CHOOSE x \in S : \A y \in S : x <= y
Max(S) == CHOOSE x \in S : \A y \in S : x >= y

Lower == {"a","b","c","d","e","f","g","h","i","j","k","l","m",
          "n","o","p","q","r","s","t","u","v","w","x","y","z"}
Upper == {"A","B","C","D","E","F","G","H","I","J","K","L","M",
          "N","O","P","Q","R","S","T","U","V","W","X","Y","Z"}
Digit == {"0","1","2","3","4","5","6","7","8","9"}

\* the character class [a-zA-Z0-9_-]
IdChars == Lower \cup Upper \cup Digit \cup {"_", "-"}

\* what str.strip() removes
Whitespace == {" ", "\t", "\n", "\r", "\f"}

\* {11} in every pattern, and the slice value[-11:]
CANON_LEN == 11

\* a mutant of Strip: also strips dashes and underscores, as strip(" -_") would
StripPunct(value) ==
    LET keep == {i \in 1..Len(value) : value[i] \notin Whitespace \cup {"-", "_"}}
    IN  IF keep = {} THEN <<>> ELSE SubSeq(value, Min(keep), Max(keep))

\* value.strip()
Strip(value) ==
    LET keep == {i \in 1..Len(value) : value[i] \notin Whitespace}
    IN  IF keep = {} THEN <<>> ELSE SubSeq(value, Min(keep), Max(keep))

\* re.match(r"^[a-zA-Z0-9_-]{11}$", value): "$" also matches before a final newline
IsCanonical(value) ==
    /\ \/ Len(value) = CANON_LEN
       \/ Len(value) = CANON_LEN + 1 /\ value[CANON_LEN + 1] = "\n"
    /\ \A i \in 1..CANON_LEN : value[i] \in IdChars

\* the literal lit matches value at position i
MatchAt(value, i, lit) ==
    /\ i + Len(lit) - 1 <= Len(value)
    /\ \A k \in 1..Len(lit) : value[i + k - 1] = lit[k]

\* ([a-zA-Z0-9_-]{11}) matches value at position j
IdAt(value, j) ==
    /\ j + CANON_LEN - 1 <= Len(value)
    /\ \A k \in 0..(CANON_LEN - 1) : value[j + k] \in IdChars

WatchLit == <<"y","o","u","t","u","b","e",".","c","o","m","/","w","a","t","c","h","?","v","=">>
ShortLit == <<"y","o","u","t","u",".","b","e","/">>
EmbedLit == <<"y","o","u","t","u","b","e",".","c","o","m","/","e","m","b","e","d","/">>
VLit == <<"y","o","u","t","u","b","e",".","c","o","m","/","v","/">>

\* the patterns list: each pattern is the sequence of its alternative literals,
\* every alternative followed by the captured id
patterns == << <<WatchLit, ShortLit>>, <<EmbedLit>>, <<VLit>> >>

\* re.search(pattern, value): the leftmost match, the first alternative that
\* matches there; its group(1), or <<>> when nothing matches
Search(alts, value) ==
    LET hit(i, k) == MatchAt(value, i, alts[k]) /\ IdAt(value, i + Len(alts[k]))
        at == {i \in 1..Len(value) : \E k \in 1..Len(alts) : hit(i, k)}
    IN  IF at = {} THEN <<>>
        ELSE LET i == Min(at)
                 k == Min({a \in 1..Len(alts) : hit(i, a)})
                 j == i + Len(alts[k])
             IN  SubSeq(value, j, j + CANON_LEN - 1)

\* a mutant of LastChars: the slice value[:11], the first characters
FirstChars(value) ==
    IF Len(value) <= CANON_LEN THEN value ELSE SubSeq(value, 1, CANON_LEN)

\* value[-11:]
LastChars(value) ==
    IF Len(value) <= CANON_LEN THEN value
    ELSE SubSeq(value, Len(value) - CANON_LEN + 1, Len(value))

\* the for loop over patterns, from pattern n on, then the fallback slice
RECURSIVE TryPatterns(_, _)
TryPatterns(n, value) ==
    IF n > Len(patterns) THEN LastChars(value)
    ELSE LET m == Search(patterns[n], value)
         IN  IF m # <<>> THEN m ELSE TryPatterns(n + 1, value)

extract_video_id(value) ==
    IF value = <<>> THEN value
    ELSE LET v == Strip(value)
         IN  IF IsCanonical(v) THEN v ELSE TryPatterns(1, v)

-----------------------------------------------------------------------------
(***************************************************************************)
(* Inputs of the normalizer                                                *)
(***************************************************************************)
SampleChars == {"a", "Z", "9", "_", "-"}

\* canonical identifiers: two runs of sample characters, and the usual example
IdSamples ==
    {[i \in 1..CANON_LEN |-> IF i <= k THEN c1 ELSE c2] :
        k \in 0..CANON_LEN, c1 \in SampleChars, c2 \in SampleChars}
    \cup {<<"d","Q","w","4","w","9","W","g","X","c","Q">>}

\* texts that are neither canonical nor a URL (one has a space as the first of
\* its last 11 characters, one ends with a space)
RawSamples ==
    { <<>>, <<" ">>, <<"a","b","c">>,
      <<"a","b","c","!","e","f","g","h","i","j","k">>,
      <<"n","o","t"," ","a","n"," ","i","d"," ","a","t"," ","a","l","l">>,
      <<"a","b","c","d","e","f","g","h","i","j","k","l","m">>,
      <<"a","b","c","d","e","f","g","h","i","j","k","l","m"," ">>,
      <<"a","b"," ","0","1","2","3","4","5","6","7","8","9">>,
      <<"y","o","u","t","u",".","b","e","/","s","h","o","r","t">> }

Scheme == <<"h","t","t","p","s",":","/","/","w","w","w",".">>
Before == <<"f","e","a","t","u","r","e","=","s","h","a","r","e","&">>
AfterAmp == <<"&","t","=","1","0">>
AfterQ == <<"?","t","=","1","0">>

Shapes == {"watch", "short", "embed"}

\* the URL of each accepted shape for an id, with optional query parameters
\* before the id (watch URLs only: the id of the others is in the path) and after it
UrlFor(shape, id, before, after) ==
    CASE shape = "watch" ->
            Scheme \o <<"y","o","u","t","u","b","e",".","c","o","m","/","w","a","t","c","h","?">>
                   \o (IF before THEN Before ELSE <<>>) \o <<"v","=">> \o id
                   \o (IF after THEN AfterAmp ELSE <<>>)
      [] shape = "short" ->
            <<"h","t","t","p","s",":","/","/">> \o ShortLit \o id
                   \o (IF after THEN AfterQ ELSE <<>>)
      [] shape = "embed" ->
            Scheme \o EmbedLit \o id \o (IF after THEN AfterQ ELSE <<>>)

NormRequests ==
    {[shape |-> "bare", id |-> id, before |-> FALSE, after |-> FALSE, pad |-> pad] :
        id \in IdSamples, pad \in BOOLEAN}
    \cup {[shape |-> "raw", id |-> t, before |-> FALSE, after |-> FALSE, pad |-> FALSE] :
        t \in RawSamples}
    \cup {[shape |-> s, id |-> id, before |-> b, after |-> a, pad |-> FALSE] :
        s \in Shapes, id \in IdSamples, b \in BOOLEAN, a \in BOOLEAN}

\* the text handed to extract_video_id
TextOf(req) ==
    CASE req.shape = "bare" -> IF req.pad THEN <<" ">> \o req.id \o <<"\n">> ELSE req.id
      [] req.shape = "raw"  -> req.id
      [] OTHER -> UrlFor(req.shape, req.id, req.before /\ req.shape = "watch", req.after)


-----------------------------------------------------------------------------
(***************************************************************************)
(* Stream selector and provider adapters                                   *)
(***************************************************************************)
\* YOUTUBE_TARGET_ABR, in kbit/s
TARGET_ABR == 128

\* len(PIPED_INSTANCES) and len(INVIDIOUS_INSTANCES) with the default lists
NUM_PIPED == 3
NUM_INVIDIOUS == 5

\* a bitrate as the JSON gives it: absent, a number or a string
NoBitrate == [t |-> "none"]
IntBitrate(n) == [t |-> "int", n |-> n]
StrBitrate(s) == [t |-> "str", s |-> s]

DigitValue(c) ==
    CASE c = "0" -> 0 [] c = "1" -> 1 [] c = "2" -> 2 [] c = "3" -> 3 [] c = "4" -> 4
      [] c = "5" -> 5 [] c = "6" -> 6 [] c = "7" -> 7 [] c = "8" -> 8 [] c = "9" -> 9

\* int(digits)
RECURSIVE DigitsToInt(_)
DigitsToInt(s) ==
    IF s = <<>> THEN 0
    ELSE 10 * DigitsToInt(SubSeq(s, 1, Len(s) - 1)) + DigitValue(s[Len(s)])

\* re.findall(r"\d+", s)[0]: the first maximal run of digits, <<>> when there is none
FirstDigits(s) ==
    LET starts == {i \in 1..Len(s) : s[i] \in Digit}
    IN  IF starts = {} THEN <<>>
        ELSE LET a == Min(starts)
                 stops == {j \in a..Len(s) : \A k \in a..j : s[k] \in Digit}
             IN  SubSeq(s, a, Max(stops))

_bitrate_to_int(value) ==
    CASE value.t = "none" -> 0
      [] value.t = "int"  -> value.n
      [] value.t = "str"  ->
            LET digits == FirstDigits(value.s)
            IN  IF digits = <<>> THEN 0
                ELSE IF value.s[Len(value.s)] \in {"k", "K"}
                     THEN DigitsToInt(digits) * 1000
                     ELSE DigitsToInt(digits)

\* a mutant of Abs: the signed difference
Signed(n) == n

\* abs(...)
Abs(n) == IF n < 0 THEN 0 - n ELSE n

\* a mutant of SortedByBitrate: the list as the instance gave it
Unsorted(streams) == streams

\* sorted(audio_streams, key=...): a stable sort, by insertion
RECURSIVE SortedByBitrate(_)
SortedByBitrate(streams) ==
    IF Len(streams) <= 1 THEN streams
    ELSE LET front == SortedByBitrate(SubSeq(streams, 1, Len(streams) - 1))
             x == streams[Len(streams)]
             keep == {i \in 1..Len(front) :
                        _bitrate_to_int(front[i].bitrate) <= _bitrate_to_int(x.bitrate)}
             n == IF keep = {} THEN 0 ELSE Max(keep)
         IN  SubSeq(front, 1, n) \o <<x>> \o SubSeq(front, n + 1, Len(front))

NoStream == [ok |-> FALSE]

\* _select_stream: the chosen rendition (tagged ok), or NoStream for None
_select_stream(audio_streams, quality) ==
    IF audio_streams = <<>> THEN NoStream
    ELSE LET ordered == SortedByBitrate(audio_streams)
             target == TARGET_ABR * 1000
             dist(i) == Abs(_bitrate_to_int(ordered[i].bitrate) - target)
             best == Min({i \in 1..Len(ordered) :
                            \A j \in 1..Len(ordered) : dist(i) <= dist(j)})
             pick == CASE quality = "high" -> ordered[Len(ordered)]
                       [] quality = "low"  -> ordered[1]
                       [] OTHER            -> ordered[best]
         IN  [ok |-> TRUE, bitrate |-> pick.bitrate, url |-> pick.url, type |-> pick.type]

\* the quality tiers callers pass
Qualities == {"low", "esp32", "high"}

\* what an instance can answer: bitrates, urls ("" is a missing url), media types
BitrateSamples ==
    { NoBitrate, IntBitrate(64000), IntBitrate(192000), StrBitrate(<<"1","2","8","k">>) }
Renditions ==
    { [bitrate |-> b, url |-> u, type |-> t] :
        b \in BitrateSamples, u \in {"", "u"}, t \in {"audio", "video"} }

\* longest list of renditions an instance answers with
MaxStreams == 2

StreamLists == UNION { [1..n -> Renditions] : n \in 0..MaxStreams }

\* what _http_get_json raises: a network error, a bad status, a body that is
\* no JSON, a timeout
RequestErrors == {"URLError", "HTTPError", "JSONDecodeError", "timeout"}

\* what subprocess.run raises in fetch_stream_via_ytdlp
ProcessErrors == {"TimeoutExpired", "FileNotFoundError"}

\* an instance's answer: an exception of _http_get_json, or the parsed list of
\* renditions
Responses ==
    {[err |-> TRUE, exc |-> e] : e \in RequestErrors}
        \cup {[err |-> FALSE, streams |-> l] : l \in StreamLists}

\* a mutant of AdapterCatches: except urllib.error.HTTPError in place of
\* except Exception
AdapterCatchesHttpOnly(e) == e = "HTTPError"

\* "except Exception" of an adapter catches e: every class in RequestErrors and
\* ProcessErrors derives from Exception
AdapterCatches(e) == e \in RequestErrors \cup ProcessErrors

NoResult == [ok |-> FALSE]

\* a mutant of PipedInstance: no test of what the selector returned
PipedInstanceUnchecked(instance, resp, quality) ==
    IF resp.err THEN NoResult
    ELSE [ok |-> TRUE, stream_url |-> "", bitrate |-> 0, source |-> "piped",
          instance |-> instance]

\* one iteration of fetch_stream_via_piped's loop: the dict it returns from this
\* instance, or NoResult when it goes on to the next instance
PipedInstance(instance, resp, quality) ==
    IF resp.err THEN NoResult
    ELSE LET chosen == _select_stream(resp.streams, quality)
         IN  IF ~chosen.ok THEN NoResult
             ELSE [ok |-> TRUE, stream_url |-> chosen.url,
                   bitrate |-> _bitrate_to_int(chosen.bitrate),
                   source |-> "piped", instance |-> instance]

\* one iteration of fetch_stream_via_invidious's loop
InvidiousInstance(instance, resp, quality) ==
    IF resp.err THEN NoResult
    ELSE LET IsAudio(fmt) == fmt.type = "audio"
             chosen == _select_stream(SelectSeq(resp.streams, IsAudio), quality)
         IN  IF ~chosen.ok THEN NoResult
             ELSE [ok |-> TRUE, stream_url |-> chosen.url,
                   bitrate |-> _bitrate_to_int(chosen.bitrate),
                   source |-> "invidious", instance |-> instance]

\* fetch_stream_via_ytdlp: the first line of yt-dlp's output, or None
YtdlpResult(success) ==
    IF success
    THEN [ok |-> TRUE, stream_url |-> "u", bitrate |-> 0, source |-> "yt-dlp", instance |-> 0]
    ELSE NoResult

-----------------------------------------------------------------------------
(***************************************************************************)
(* Normalizer harness: extract_video_id applied to one input               *)
(***************************************************************************)
NormInit ==
    /\ normReq \in NormRequests
    /\ normOut = <<>>
    /\ normPc = "ready"

NormIdle ==
    /\ normReq = [shape |-> "raw", id |-> <<>>, before |-> FALSE, after |-> FALSE,
                  pad |-> FALSE]
    /\ normOut = <<>>
    /\ normPc = "done"

Normalize ==
    /\ normPc = "ready"
    /\ normOut' = extract_video_id(TextOf(normReq))
    /\ normPc' = "done"
    /\ UNCHANGED <<normReq, selVars, casVars, cacheVars, srvVars, brVars, rpcVars>>

-----------------------------------------------------------------------------
(***************************************************************************)
(* Selector harness: _select_stream applied to one list of renditions      *)
(***************************************************************************)
\* the format preferences of the get_stream_url tool ("enum" of its input schema);
\* handle_call_tool hands format_pref to get_audio_stream as the quality
ToolFormats == {"best", "esp32"}

\* the tiers of the harness: the three callers pass, "medium", which the comment
\* of the default branch names, and the formats of the get_stream_url tool
SelQualities == Qualities \cup {"medium"} \cup ToolFormats

SelInit ==
    /\ selStreams \in StreamLists
    /\ selQuality \in SelQualities
    /\ selOut = NoStream
    /\ selPc = "ready"

SelIdle ==
    /\ selStreams = <<>>
    /\ selQuality = "esp32"
    /\ selOut = NoStream
    /\ selPc = "done"

Select ==
    /\ selPc = "ready"
    /\ selOut' = _select_stream(selStreams, selQuality)
    /\ selPc' = "done"
    /\ UNCHANGED <<selStreams, selQuality, normVars, casVars, cacheVars, srvVars, brVars, rpcVars>>

-----------------------------------------------------------------------------
(***************************************************************************)
(* Bitrate harness: _bitrate_to_int applied to one value                   *)
(***************************************************************************)
\* the parts the string values are built from: what stands before the number,
\* the number, what stands after it
BrPrefixes == { <<>>, <<"a">>, <<"m","p","4","a"," ">> }
BrNumbers == { <<>>, <<"0">>, <<"6","4">>, <<"1","2","8">>, <<"1","2","8",".","5">> }
BrSuffixes == { <<>>, <<"k">>, <<"K">>, <<"k","b","p","s">>, <<"k"," ">> }

\* item.get("bitrate"): absent, a number, or a string
BitrateInputs ==
    {NoBitrate} \cup {IntBitrate(n) : n \in {0, 64000, 128000}}
    \cup {StrBitrate(pre \o num \o suf) :
             pre \in BrPrefixes, num \in BrNumbers, suf \in BrSuffixes}

BrInit ==
    /\ brIn \in BitrateInputs
    /\ brOut = 0
    /\ brPc = "ready"

BrIdle ==
    /\ brIn = NoBitrate
    /\ brOut = 0
    /\ brPc = "done"

Convert ==
    /\ brPc = "ready"
    /\ brOut' = _bitrate_to_int(brIn)
    /\ brPc' = "done"
    /\ UNCHANGED <<brIn, normVars, selVars, casVars, cacheVars, srvVars, rpcVars>>

-----------------------------------------------------------------------------
(***************************************************************************)
(* Resolver cascade: get_audio_stream                                      *)
(***************************************************************************)
\* a mutant of pipeline: the two frontends in the other order
pipeline_swapped == <<"invidious", "piped", "ytdlp">>

\* pipeline = [fetch_stream_via_piped, fetch_stream_via_invidious, fetch_stream_via_ytdlp]
pipeline == <<"piped", "invidious", "ytdlp">>

\* the provider after p in the pipeline, "exhausted" after the last
After(p) ==
    LET n == CHOOSE i \in 1..Len(pipeline) : pipeline[i] = p
    IN  IF n < Len(pipeline) THEN pipeline[n + 1] ELSE "exhausted"

\* result and result.get("stream_url")
Accepts(r) == r.ok /\ r.stream_url # ""

CasInit ==
    /\ casPc = "idle"
    /\ casQuality = "esp32"
    /\ casInst = 1
    /\ casLog = <<>>
    /\ casResult = NoResult

\* get_audio_stream is entered: the loop starts at the head of the pipeline
CasCall ==
    /\ casPc = "idle"
    /\ \E q \in Qualities : casQuality' = q
    /\ casPc' = pipeline[1]
    /\ casInst' = 1
    /\ UNCHANGED <<casLog, casResult, normVars, selVars, cacheVars, srvVars, brVars, rpcVars>>

\* the loop body of get_audio_stream once provider p has returned r (NoResult for None)
CasProviderReturned(p, r) ==
    IF Accepts(r)
    THEN /\ casPc' = "done"
         /\ casResult' = [ok |-> TRUE, stream_url |-> r.stream_url, bitrate |-> r.bitrate,
                          source |-> r.source, instance |-> r.instance,
                          quality_request |-> casQuality]
         /\ UNCHANGED casInst
    ELSE IF After(p) = "exhausted"
         THEN /\ casPc' = "done"
              /\ casResult' = NoResult
              /\ UNCHANGED casInst
         ELSE /\ casPc' = After(p)
              /\ casInst' = 1
              /\ UNCHANGED casResult

\* what adapter p hands to _select_stream from the answer resp of an instance:
\* "err" when the request raised, "empty" for an empty list, else "some"
SelectorInput(p, resp) ==
    IF resp.err THEN "err"
    ELSE LET IsAudio(fmt) == fmt.type = "audio"
             given == IF p = "invidious" THEN SelectSeq(resp.streams, IsAudio)
                      ELSE resp.streams
         IN  IF given = <<>> THEN "empty" ELSE "some"

\* the answer resp of an instance to adapter p holds a usable audio rendition:
\* one with a stream url (for Invidious, among the formats of an audio type)
HasUsable(p, resp) ==
    /\ ~resp.err
    /\ \E k \in 1..Len(resp.streams) :
          /\ resp.streams[k].url # ""
          /\ p = "invidious" => resp.streams[k].type = "audio"

\* one query of a frontend adapter to its instance casInst, which answered resp,
\* handed sel to the selector and got r from the loop body; the adapter returns
\* r, tries its next instance, or returns None
CasInstanceAnswered(p, count, resp, sel, r) ==
    /\ casLog' = Append(casLog, [p |-> p, i |-> casInst, sel |-> sel, returned |-> r.ok,
                                 usable |-> r.ok /\ r.stream_url # "",
                                 hasUsable |-> HasUsable(p, resp)])
    /\ IF r.ok THEN CasProviderReturned(p, r)
       ELSE IF casInst < count
            THEN casInst' = casInst + 1 /\ UNCHANGED <<casPc, casResult>>
            ELSE CasProviderReturned(p, NoResult)

\* an exception the adapter did not catch leaves the adapter and, get_audio_stream
\* having no except clause, get_audio_stream
CasRaises ==
    /\ casPc' = "raised"
    /\ UNCHANGED <<casInst, casLog, casResult>>

CasQueryPiped ==
    /\ casPc = "piped"
    /\ \E resp \in Responses :
          IF resp.err /\ ~AdapterCatches(resp.exc) THEN CasRaises
          ELSE CasInstanceAnswered("piped", NUM_PIPED, resp, SelectorInput("piped", resp),
                                   PipedInstance(casInst, resp, casQuality))
    /\ UNCHANGED <<casQuality, normVars, selVars, cacheVars, srvVars, brVars, rpcVars>>

CasQueryInvidious ==
    /\ casPc = "invidious"
    /\ \E resp \in Responses :
          IF resp.err /\ ~AdapterCatches(resp.exc) THEN CasRaises
          ELSE CasInstanceAnswered("invidious", NUM_INVIDIOUS, resp,
                                   SelectorInput("invidious", resp),
                                   InvidiousInstance(casInst, resp, casQuality))
    /\ UNCHANGED <<casQuality, normVars, selVars, cacheVars, srvVars, brVars, rpcVars>>

\* yt-dlp --get-url printed a url, returned a code other than 0, printed nothing,
\* or subprocess.run raised
CasRunYtdlp ==
    /\ casPc = "ytdlp"
    /\ \E out \in {"url", "returncode", "empty"} \cup ProcessErrors :
          IF out \in ProcessErrors /\ ~AdapterCatches(out) THEN CasRaises
          ELSE LET r == YtdlpResult(out = "url")
               IN  /\ casLog' = Append(casLog, [p |-> "ytdlp", i |-> 0, sel |-> "none",
                                                returned |-> r.ok, usable |-> r.ok,
                                                hasUsable |-> r.ok])
                   /\ CasProviderReturned("ytdlp", r)
    /\ UNCHANGED <<casQuality, normVars, selVars, cacheVars, srvVars, brVars, rpcVars>>

-----------------------------------------------------------------------------
(***************************************************************************)
(* Download/cache manager: ensure_audio_file, its executor threads and     *)
(* the janitor.  Coroutines run on one event loop: a coroutine step is     *)
(* the code between two awaits and excludes every other coroutine step;    *)
(* the functions handed to run_in_executor run in threads of their own.    *)
(* A thread's end that changes no file is folded into the coroutine step   *)
(* that resumes after it.                                                  *)
(***************************************************************************)
\* ensure_audio_file calls in one run, one per caller
NumCallers == 2
\* handler tasks cancelled in one run
MaxCancels == 1
\* janitor cycles in one run
MaxCycles == 1
\* the clock stops here
MaxTime == 2

\* AUDIO_CACHE_TTL, in clock ticks
CACHE_DURATION == 1

AUDIO_FORMAT == "mp3"

Callers == 1..NumCallers

\* the video_id arguments callers pass: an id, a URL of the same id, another id
RawInputs ==
    { <<"d","Q","w","4","w","9","W","g","X","c","Q">>,
      <<"h","t","t","p","s",":","/","/">> \o ShortLit
           \o <<"d","Q","w","4","w","9","W","g","X","c","Q">>,
      <<"a","a","a","a","a","a","a","a","a","a","a">> }

Ids == {extract_video_id(r) : r \in RawInputs}

\* the extensions of the files a download can leave in CACHE_DIR
Exts == {AUDIO_FORMAT, "m4a"}

Paths == {[id |-> i, ext |-> e] : i \in Ids, e \in Exts}

_audio_path(video_id) == [id |-> video_id, ext |-> AUDIO_FORMAT]

NoFile == [exists |-> FALSE]
FileOf(size, mtime) == [exists |-> TRUE, size |-> size, mtime |-> mtime]

NoPath == [ok |-> FALSE]
PathResult(path) == [ok |-> TRUE, path |-> path]

NoId == <<>>

\* asyncio.Lock(): not locked, nobody waiting
NewLock == [holder |-> 0, waiters |-> <<>>]

\* a mutant of Fresh: any existing file is a hit, whatever its age
FreshAnyAge(f) == f.exists

\* target.exists() and time.time() - target.stat().st_mtime < CACHE_DURATION
Fresh(f) == f.exists /\ now - f.mtime < CACHE_DURATION

\* target.exists() and target.stat().st_size > 0
NonEmpty(f) == f.exists /\ f.size > 0

\* the responses of stream_file_response: none yet, the JSON error, the file
\* served by web.FileResponse, or the error aiohttp answers with when the file
\* of a FileResponse is not there
NoResponse == [kind |-> "none"]
JsonError == [kind |-> "json", status |-> 500, error |-> "Failed to prepare audio file"]
FileResponse(path) == [kind |-> "file", path |-> path]
FileMissing == [kind |-> "missing"]

\* positions of the coroutine inside the lock, awaiting an executor thread
FetchStages == {"piped_fetch", "inv_fetch"}
WriteStages == {"piped_dl", "inv_dl", "y2mate", "yt1s"}
ChainStages == FetchStages \cup WriteStages \cup {"ytdlp"}

\* the strategies of ensure_audio_file in the order of its try blocks
\* (_download_via_proxy_stream, _download_via_api, _download_via_ytdlp_enhanced),
\* each by the stage it begins at
strategies == <<"piped_fetch", "y2mate", "ytdlp">>

\* the place in strategies of the strategy a stage belongs to
StrategyOf(stage) ==
    IF stage \in {"piped_fetch", "piped_dl", "inv_fetch", "inv_dl"} THEN 1
    ELSE IF stage \in {"y2mate", "yt1s"} THEN 2
    ELSE 3

\* a mutant of NextStrategy: after a failure the chain goes to its last strategy
LastStrategy(stage) == strategies[Len(strategies)]

\* the strategy the chain goes on with when the strategy of stage has failed
NextStrategy(stage) == strategies[StrategyOf(stage) + 1]

\* a cancelled call whose executor thread (or yt-dlp process) is still running
OrphanStages == {"orphan_dl", "orphan_ytdlp"}

\* the event loop is free to run a step of a handler coroutine
LoopFree == janitor.pc = "sleep"

CacheInit ==
    /\ now = 0
    /\ files = [path \in Paths |-> NoFile]
    /\ locks = [i \in {} |-> NewLock]
    /\ pc = [p \in Callers |-> "idle"]
    /\ thr = [p \in Callers |-> "none"]
    /\ raw = [p \in Callers |-> NoId]
    /\ vid = [p \in Callers |-> NoId]
    /\ result = [p \in Callers |-> NoPath]
    /\ ret = [p \in Callers |-> "none"]
    /\ order = [p \in Callers |-> "none"]
    /\ entered = [p \in Callers |-> FALSE]
    /\ cancels = 0
    /\ janitor = [pc |-> "sleep", at |-> 0, todo |-> {}, doomed |-> {}, listed |-> {},
                  cycles |-> 0]
    /\ dirOk \in BOOLEAN
    /\ reply = [p \in Callers |-> NoResponse]

\* a mutant of Unlocked: one lock for every identifier, free only when no lock
\* of the registry is held
UnlockedEverywhere(lk) ==
    /\ lk.holder = 0 /\ lk.waiters = <<>>
    /\ \A i \in DOMAIN locks : locks[i].holder = 0

\* asyncio.Lock.acquire takes the lock without suspending: it is not locked and
\* nobody waits for it
Unlocked(lk) == lk.holder = 0 /\ lk.waiters = <<>>

\* a mutant of Released: the lock stays held, as a bare acquire() without
\* try/finally would leave it on an exit path
NotReleased(lks, id) == lks

\* the registry lks with the lock of id released (the exit of "async with lock")
Released(lks, id) == [lks EXCEPT ![id].holder = 0]

\* download_locks[video_id] = asyncio.Lock(): a new lock for every call
AlwaysNewLock(id) == NewLock

\* download_locks.setdefault(video_id, asyncio.Lock())
SetDefault(id) == IF id \in DOMAIN locks THEN locks[id] ELSE NewLock

\* a mutant of WithLock: the entries of locks that nobody holds or waits for are
\* dropped from the registry
WithLockPruned(id, lk) ==
    [i \in {j \in DOMAIN locks : locks[j].holder # 0 \/ locks[j].waiters # <<>>} \cup {id}
       |-> IF i = id THEN lk ELSE locks[i]]

\* the registry after download_locks.setdefault(id, ...) and the change of the
\* lock of id to lk: the other entries stay
WithLock(id, lk) == [i \in DOMAIN locks \cup {id} |-> IF i = id THEN lk ELSE locks[i]]

\* the call of p returns res, by exit path kind
Return(p, res, kind) ==
    /\ pc' = [pc EXCEPT ![p] = "done"]
    /\ thr' = [thr EXCEPT ![p] = "none"]
    /\ result' = [result EXCEPT ![p] = res]
    /\ ret' = [ret EXCEPT ![p] = kind]

\* the lock is held and the cache is stale: the strategy chain starts with
\* _download_via_proxy_stream handing fetch_stream_via_piped to the executor
EnterChain(p) ==
    /\ pc' = [pc EXCEPT ![p] = strategies[1]]
    /\ thr' = [thr EXCEPT ![p] = "run"]
    /\ entered' = [entered EXCEPT ![p] = TRUE]
    /\ UNCHANGED <<result, ret>>

\* how a call for id that begins now stands to the calls before it
OrderOf(p, id) ==
    LET same == {q \in Callers \ {p} : vid[q] = id}
    IN  IF same = {} THEN "first"
        ELSE IF \E q \in same : same = {q} /\ pc[q] # "done" THEN "second"
        ELSE "other"

\* a mutant of MkdirRaises: the failure of mkdir is ignored
MkdirIgnored == FALSE

\* CACHE_DIR.mkdir(parents=True, exist_ok=True) raises: the directory is not
\* there and cannot be created
MkdirRaises == ~dirOk

\* ensure_audio_file up to its first suspension: mkdir, the lock-free cache check, then
\* the lock (taken at once when free, with the in-lock check) or the wait for it
Call(p, r) ==
    /\ LoopFree
    /\ pc[p] = "idle"
    /\ raw' = [raw EXCEPT ![p] = r]
    /\ IF MkdirRaises
       THEN /\ Return(p, NoPath, "mkdir")
            /\ UNCHANGED <<vid, order, locks, entered>>
       ELSE
       LET id == extract_video_id(r)
           target == _audio_path(id)
           lk == SetDefault(id)
       IN  /\ vid' = [vid EXCEPT ![p] = id]
           /\ order' = [order EXCEPT ![p] = OrderOf(p, id)]
           /\ IF Fresh(files[target])
              THEN /\ Return(p, PathResult(target), "hit")
                   /\ UNCHANGED <<locks, entered>>
              ELSE IF Unlocked(lk)
                   THEN /\ locks' = WithLock(id, [lk EXCEPT !.holder = p])
                        /\ EnterChain(p)
                   ELSE /\ locks' = WithLock(id, [lk EXCEPT !.waiters = Append(@, p)])
                        /\ pc' = [pc EXCEPT ![p] = "waiting"]
                        /\ UNCHANGED <<thr, result, ret, entered>>
    /\ UNCHANGED <<now, files, cancels, janitor, dirOk, reply, normVars, selVars, casVars, srvVars, brVars, rpcVars>>

\* a waiter is woken with the lock: the in-lock cache check, then a return
\* ("cache hit after wait") or the strategy chain
Wake(p) ==
    /\ LoopFree
    /\ pc[p] = "waiting"
    /\ LET id == vid[p]
           target == _audio_path(id)
           lk == locks[id]
           held == [locks EXCEPT ![id] = [holder |-> p, waiters |-> Tail(lk.waiters)]]
       IN  /\ lk.holder = 0
           /\ lk.waiters # <<>> /\ Head(lk.waiters) = p
           /\ IF Fresh(files[target])
              THEN /\ Return(p, PathResult(target), "hit_wait")
                   /\ locks' = Released(held, id)
                   /\ UNCHANGED entered
              ELSE /\ locks' = held
                   /\ EnterChain(p)
    /\ UNCHANGED <<now, files, raw, vid, order, cancels, janitor, dirOk, reply, normVars, selVars, casVars, srvVars, brVars, rpcVars>>

(***************************************************************************)
(* Executor threads.  They run beside the event loop, so their steps are   *)
(* enabled whatever the coroutines and the janitor do.                     *)
(***************************************************************************)
\* the thread of p has ended with outcome; the thread of an orphan is awaited
\* by nobody
ThreadEnded(p, outcome) ==
    IF pc[p] \in OrphanStages
    THEN pc' = [pc EXCEPT ![p] = "done"] /\ thr' = [thr EXCEPT ![p] = "none"]
    ELSE thr' = [thr EXCEPT ![p] = outcome] /\ UNCHANGED pc

\* open(target, 'wb') in _download, _fetch_y2mate or _fetch_yt1s: the target
\* exists, empty, from here on
ThreadOpens(p) ==
    /\ pc[p] \in WriteStages \cup {"orphan_dl"} /\ thr[p] = "run"
    /\ files' = [files EXCEPT ![_audio_path(vid[p])] = FileOf(0, now)]
    /\ thr' = [thr EXCEPT ![p] = "open"]
    /\ UNCHANGED <<now, locks, pc, raw, vid, result, ret, order, entered, cancels, janitor,
                   dirOk, reply, normVars, selVars, casVars, srvVars, brVars, rpcVars>>

\* f.write(resp.read()): the body, of size 0 when the answer is empty, is written
\* and the function returns; _fetch_y2mate and _fetch_yt1s return the target
\* only if it is not empty
ThreadWrites(p) ==
    /\ pc[p] \in WriteStages \cup {"orphan_dl"} /\ thr[p] = "open"
    /\ \E size \in {0, 1} :
          /\ files' = [files EXCEPT ![_audio_path(vid[p])] = FileOf(size, now)]
          /\ ThreadEnded(p, IF pc[p] \in {"y2mate", "yt1s"} /\ size = 0
                            THEN "fail" ELSE "ok")
    /\ UNCHANGED <<now, locks, raw, vid, result, ret, order, entered, cancels, janitor,
                   dirOk, reply, normVars, selVars, casVars, srvVars, brVars, rpcVars>>

\* _run_download: yt-dlp returns 0, having written the audio file, a file with
\* another extension, or nothing
YtdlpExits(p) ==
    /\ pc[p] \in {"ytdlp", "orphan_ytdlp"} /\ thr[p] = "run"
    /\ ThreadEnded(p, "ok")
    /\ \/ \E e \in Exts :
             files' = [files EXCEPT ![[id |-> vid[p], ext |-> e]] = FileOf(1, now)]
       \/ UNCHANGED files
    /\ UNCHANGED <<now, locks, raw, vid, result, ret, order, entered, cancels, janitor,
                   dirOk, reply, normVars, selVars, casVars, srvVars, brVars, rpcVars>>

\* the thread of a cancelled call ends without writing: urlopen or resp.read()
\* raises, the API gives no link, yt-dlp fails or times out
OrphanFails(p) ==
    /\ pc[p] \in OrphanStages
    /\ ThreadEnded(p, "fail")
    /\ UNCHANGED <<now, files, locks, raw, vid, result, ret, order, entered, cancels, janitor,
                   dirOk, reply, normVars, selVars, casVars, srvVars, brVars, rpcVars>>

(***************************************************************************)
(* The strategy chain inside the lock                                      *)
(***************************************************************************)
\* the coroutine goes on to await the next thread
Await(p, stage) ==
    /\ pc' = [pc EXCEPT ![p] = stage]
    /\ thr' = [thr EXCEPT ![p] = "run"]
    /\ UNCHANGED <<result, ret, locks>>

\* a strategy returned True: ensure_audio_file returns target and leaves the lock
ReturnTarget(p, kind) ==
    /\ Return(p, PathResult(_audio_path(vid[p])), kind)
    /\ locks' = Released(locks, vid[p])

\* a mutant of ReturnNone: None is returned with the lock still held, as after
\* lock.acquire() without try/finally
ReturnNoneHolding(p) ==
    /\ Return(p, NoPath, "exhausted")
    /\ UNCHANGED locks

\* every strategy failed: ensure_audio_file returns None and leaves the lock
ReturnNone(p) ==
    /\ Return(p, NoPath, "exhausted")
    /\ locks' = Released(locks, vid[p])

\* what a failed thread raises into the coroutine that awaits it: urlopen or
\* resp.read() fail or time out, json.loads fails, subprocess.run times out or
\* does not find the binary
Raised == {"URLError", "timeout", "JSONDecodeError", "TimeoutExpired", "FileNotFoundError"}

\* a mutant of Caught: except urllib.error.URLError in place of except Exception
CaughtUrlErrorOnly(e) == e = "URLError"

\* "except Exception" (of the strategy, and of ensure_audio_file around it)
\* catches e: every class in Raised derives from Exception
Caught(e) == e \in Raised

\* an exception no except clause caught leaves ensure_audio_file ("async with"
\* releases the lock)
Raises(p) ==
    /\ Return(p, NoPath, "raised")
    /\ locks' = Released(locks, vid[p])

\* the thread p awaits has failed: it returned a falsy result (thr = "fail") or
\* it raised; a caught failure goes on with stage
Recover(p, stage) ==
    IF thr[p] = "fail" THEN Await(p, stage)
    ELSE \E e \in Raised : IF Caught(e) THEN Await(p, stage) ELSE Raises(p)

\* the thread p awaits ended in an exception or without a result, leaving the
\* files as they are: before it opened the target, or (resp.read() raising)
\* after it opened it
ThreadFailed(p) == thr[p] \in {"run", "open", "fail"}

\* _download_via_proxy_stream resumes after a thread: Piped first, then Invidious,
\* each a fetch of the stream url (a dict with a stream_url, or nothing) and a
\* download checked by exists() and st_size
ProxyStreamStep(p) ==
    /\ LoopFree
    /\ LET target == _audio_path(vid[p])
       IN  \/ /\ pc[p] = "piped_fetch"
              /\ Await(p, "piped_dl") \/ Await(p, "inv_fetch")
           \/ /\ pc[p] = "piped_dl"
              /\ \/ thr[p] = "ok" /\ NonEmpty(files[target]) /\ ReturnTarget(p, "proxy")
                 \/ thr[p] = "ok" /\ ~NonEmpty(files[target]) /\ Await(p, "inv_fetch")
                 \/ ThreadFailed(p) /\ Recover(p, "inv_fetch")
           \/ /\ pc[p] = "inv_fetch"
              /\ Await(p, "inv_dl") \/ Await(p, NextStrategy(pc[p]))
           \/ /\ pc[p] = "inv_dl"
              /\ \/ thr[p] = "ok" /\ NonEmpty(files[target]) /\ ReturnTarget(p, "proxy")
                 \/ thr[p] = "ok" /\ ~NonEmpty(files[target]) /\ Await(p, NextStrategy(pc[p]))
                 \/ ThreadFailed(p) /\ Recover(p, NextStrategy(pc[p]))
    /\ UNCHANGED <<now, files, raw, vid, order, entered, cancels, janitor, dirOk, reply, normVars, selVars, casVars, srvVars, brVars, rpcVars>>

\* _download_via_api resumes after a thread: y2mate, then yt1s
ApiStep(p) ==
    /\ LoopFree
    /\ pc[p] \in {"y2mate", "yt1s"}
    /\ \/ thr[p] = "ok" /\ ReturnTarget(p, "api")
       \/ ThreadFailed(p) /\ Recover(p, IF pc[p] = "y2mate" THEN "yt1s" ELSE NextStrategy(pc[p]))
    /\ UNCHANGED <<now, files, raw, vid, order, entered, cancels, janitor, dirOk, reply, normVars, selVars, casVars, srvVars, brVars, rpcVars>>

\* _download_via_ytdlp_enhanced resumes after yt-dlp: on return code 0 the first
\* file that CACHE_DIR.glob(video_id.*) yields decides; a file with another
\* extension is renamed to the target (the rename may fail, which is only logged).
\* Whatever was found, ensure_audio_file returns target; with nothing found, or
\* yt-dlp failed (a return code other than 0) or subprocess.run raised (the
\* timeout), every method failed and it returns None.
YtdlpStep(p) ==
    /\ LoopFree
    /\ pc[p] = "ytdlp"
    /\ LET id == vid[p]
           target == _audio_path(id)
           found == {path \in Paths : path.id = id /\ files[path].exists}
       IN  \/ /\ thr[p] = "ok" /\ found = {}
              /\ ReturnNone(p)
              /\ UNCHANGED files
           \/ /\ thr[p] = "run"
              /\ \E e \in Raised \cup {"returncode"} :
                    IF e = "returncode" \/ Caught(e) THEN ReturnNone(p) ELSE Raises(p)
              /\ UNCHANGED files
           \/ /\ thr[p] = "ok"
              /\ ReturnTarget(p, "ytdlp")
              /\ \E path \in found :
                    \/ /\ path.ext # AUDIO_FORMAT
                       /\ files' = [files EXCEPT ![target] = files[path], ![path] = NoFile]
                    \/ UNCHANGED files
    /\ UNCHANGED <<now, raw, vid, order, entered, cancels, janitor, dirOk, reply, normVars, selVars, casVars, srvVars, brVars, rpcVars>>

\* the handler task is cancelled while it waits for the lock or for a thread:
\* CancelledError is no Exception, so no except clause of the chain catches it;
\* "async with" releases the lock; the executor thread is not stopped
Cancel(p) ==
    /\ LoopFree
    /\ cancels < MaxCancels
    /\ pc[p] \in ChainStages \cup {"waiting"}
    /\ cancels' = cancels + 1
    /\ result' = [result EXCEPT ![p] = NoPath]
    /\ ret' = [ret EXCEPT ![p] = "cancelled"]
    /\ IF pc[p] = "waiting"
       THEN /\ locks' = [locks EXCEPT ![vid[p]].waiters = SelectSeq(@, LAMBDA q : q # p)]
            /\ pc' = [pc EXCEPT ![p] = "done"]
            /\ UNCHANGED thr
       ELSE /\ locks' = Released(locks, vid[p])
            /\ IF thr[p] \in {"run", "open"} /\ pc[p] \notin FetchStages
               THEN /\ pc' = [pc EXCEPT ![p] = IF pc[p] = "ytdlp" THEN "orphan_ytdlp"
                                                ELSE "orphan_dl"]
                    /\ UNCHANGED thr
               ELSE /\ pc' = [pc EXCEPT ![p] = "done"]
                    /\ thr' = [thr EXCEPT ![p] = "none"]
    /\ UNCHANGED <<now, files, raw, vid, order, entered, janitor, dirOk, reply, normVars, selVars, casVars, srvVars, brVars, rpcVars>>

(***************************************************************************)
(* clear_expired_cache and the clock                                       *)
(***************************************************************************)
\* a mutant of Expired: files one second younger than the TTL expire too
ExpiredEarly(f, at) == at - f.mtime >= CACHE_DURATION - 1

\* now - path.stat().st_mtime > CACHE_DURATION
Expired(f, at) == at - f.mtime > CACHE_DURATION

\* the sleep is over: now = time.time() and the glob of *.AUDIO_FORMAT; listed
\* keeps, for the properties of a cycle, the files found with their mtime
JanitorWakes ==
    /\ janitor.pc = "sleep"
    /\ janitor.cycles < MaxCycles
    /\ LET found == {path \in Paths : path.ext = AUDIO_FORMAT /\ files[path].exists}
       IN  janitor' = [pc |-> "scan", at |-> now, doomed |-> {}, todo |-> found,
                       listed |-> {[path |-> path, mtime |-> files[path].mtime] :
                                      path \in found},
                       cycles |-> janitor.cycles + 1]
    /\ UNCHANGED <<now, files, locks, pc, thr, raw, vid, result, ret, order, entered, cancels,
                   dirOk, reply, normVars, selVars, casVars, srvVars, brVars, rpcVars>>

\* path.stat() of the next listed file: expired files go on to unlink(); a
\* file that is gone raises FileNotFoundError out of the loop and ends the task
JanitorStat(path) ==
    /\ janitor.pc = "scan" /\ janitor.doomed = {}
    /\ path \in janitor.todo
    /\ IF ~files[path].exists
       THEN janitor' = [janitor EXCEPT !.pc = "dead", !.todo = {}]
       ELSE IF Expired(files[path], janitor.at)
            THEN janitor' = [janitor EXCEPT !.doomed = {path}]
            ELSE janitor' = [janitor EXCEPT !.todo = @ \ {path}]
    /\ UNCHANGED <<now, files, locks, pc, thr, raw, vid, result, ret, order, entered, cancels,
                   dirOk, reply, normVars, selVars, casVars, srvVars, brVars, rpcVars>>

\* path.unlink() of the file found expired
JanitorUnlink(path) ==
    /\ janitor.pc = "scan" /\ janitor.doomed = {path}
    /\ files' = [files EXCEPT ![path] = NoFile]
    /\ janitor' = [janitor EXCEPT !.doomed = {}, !.todo = @ \ {path}]
    /\ UNCHANGED <<now, locks, pc, thr, raw, vid, result, ret, order, entered, cancels,
                   dirOk, reply, normVars, selVars, casVars, srvVars, brVars, rpcVars>>

\* the cycle is over: await asyncio.sleep(1800)
JanitorSleeps ==
    /\ janitor.pc = "scan" /\ janitor.todo = {} /\ janitor.doomed = {}
    /\ janitor' = [janitor EXCEPT !.pc = "sleep", !.at = 0, !.listed = {}]
    /\ UNCHANGED <<now, files, locks, pc, thr, raw, vid, result, ret, order, entered, cancels,
                   dirOk, reply, normVars, selVars, casVars, srvVars, brVars, rpcVars>>

\* a file of CACHE_DIR is removed by something other than this janitor: the
\* directory is a path under /tmp by default (AUDIO_CACHE_DIR) that other
\* processes share, which is why unlink() is wrapped in except FileNotFoundError
FileVanishes(path) ==
    /\ files[path].exists
    /\ files' = [files EXCEPT ![path] = NoFile]
    /\ UNCHANGED <<now, locks, pc, thr, raw, vid, result, ret, order, entered, cancels,
                   janitor, dirOk, reply, normVars, selVars, casVars, srvVars, brVars, rpcVars>>

Tick ==
    /\ now < MaxTime
    /\ now' = now + 1
    /\ UNCHANGED <<files, locks, pc, thr, raw, vid, result, ret, order, entered, cancels,
                   janitor, dirOk, reply, normVars, selVars, casVars, srvVars, brVars, rpcVars>>

(***************************************************************************)
(* stream_file_response, the handler of /audio/{id} and /stream/{id}        *)
(***************************************************************************)
\* ensure_audio_file has returned to the handler: without a path the handler
\* answers with the JSON error; with a path it returns web.FileResponse(path),
\* and the file is opened when the response is prepared, after the handler
\* returned and off the event loop
Respond(p) ==
    /\ pc[p] = "done" /\ ret[p] \notin {"none", "cancelled"}
    /\ reply[p] = NoResponse
    /\ reply' = [reply EXCEPT ![p] =
                   IF ~result[p].ok THEN JsonError
                   ELSE IF files[result[p].path].exists THEN FileResponse(result[p].path)
                   ELSE FileMissing]
    /\ UNCHANGED <<now, files, locks, pc, thr, raw, vid, result, ret, order, entered, cancels,
                   janitor, dirOk, normVars, selVars, casVars, srvVars, brVars, rpcVars>>

(***************************************************************************)
(* The web application: its route table and the handlers of /url/{id} and  *)
(* /health                                                                 *)
(***************************************************************************)
\* the entry points that build an application
Apps == {"stream_proxy", "server"}

\* stream_proxy.init_app: the routes it adds, in the order of its add_get calls
InitAppRoutes ==
    << [path |-> "/stream", handler |-> "stream_endpoint"],
       [path |-> "/audio", handler |-> "audio_endpoint"],
       [path |-> "/url", handler |-> "url_endpoint"],
       [path |-> "/health", handler |-> "stream_proxy.health_check"] >>

\* server.main: its own routes, then register_stream_routes(app)
MainRoutes ==
    << [path |-> "/health", handler |-> "server.health_check"],
       [path |-> "/status", handler |-> "status"],
       [path |-> "/", handler |-> "status"] >> \o InitAppRoutes

\* the route table of the application an entry point builds
Routes(a) == IF a = "server" THEN MainRoutes ELSE InitAppRoutes

\* the router resolves a request to the first resource, in the order of
\* registration, that matches its path
Resolve(routes, path) ==
    routes[Min({i \in 1..Len(routes) : routes[i].path = path})].handler

\* the video_id a request can carry: add_get("/url/{video_id}") matches one path
\* segment, so a value without "/": an id, another id, an id behind "v="
SegmentInputs ==
    { <<"d","Q","w","4","w","9","W","g","X","c","Q">>,
      <<"a","a","a","a","a","a","a","a","a","a","a">>,
      <<"v","=","d","Q","w","4","w","9","W","g","X","c","Q">> }

\* get_video_info: None when the lookup fails, else a dict with title and duration
NoInfo == [ok |-> FALSE]
Infos == {NoInfo, [ok |-> TRUE, title |-> "t", duration |-> 212]}

\* JSON null
Null == [null |-> TRUE]

\* (info or {}).get(key)
InfoGet(info, key) ==
    IF ~info.ok THEN Null
    ELSE IF key = "title" THEN [null |-> FALSE, v |-> info.title]
    ELSE [null |-> FALSE, v |-> info.duration]

AudioPrefix == <<"/","a","u","d","i","o","/">>

\* a mutant of OwnAudioUrl: the url of the upstream stream
UpstreamUrl(video_id) ==
    [origin |-> "upstream", path |-> <<"/","s","t","r","e","a","m","s","/">> \o video_id,
     query |-> FALSE]

\* str(request.url.with_path(f"/audio/{video_id}").with_query(None)): the origin of
\* the request, the path of the audio route with the video_id of the request,
\* no query
OwnAudioUrl(video_id) ==
    [origin |-> "request", path |-> AudioPrefix \o video_id, query |-> FALSE]

UrlError == [kind |-> "json", status |-> 500, error |-> "Could not download audio"]

UrlOk(video_id, info) ==
    [kind |-> "url", status |-> 200, success |-> TRUE, video_id |-> video_id,
     stream_url |-> OwnAudioUrl(video_id),
     title |-> InfoGet(info, "title"), duration |-> InfoGet(info, "duration")]

\* url_endpoint after ensure_audio_file has returned to it: without a path the
\* JSON error; with a path the lookup of the metadata in an executor thread
\* (get_video_info returns None for every failure) and the JSON answer
RespondUrl(p) ==
    /\ LoopFree
    /\ pc[p] = "done" /\ ret[p] \notin {"none", "cancelled"}
    /\ reply[p] = NoResponse
    /\ \E info \in Infos :
          reply' = [reply EXCEPT ![p] =
                       IF ~result[p].ok THEN UrlError ELSE UrlOk(raw[p], info)]
    /\ UNCHANGED <<now, files, locks, pc, thr, raw, vid, result, ret, order, entered, cancels,
                   janitor, dirOk, normVars, selVars, casVars, srvVars, brVars, rpcVars>>

RECURSIVE SumSizes(_)
\* sum(p.stat().st_size for p in files)
SumSizes(S) ==
    IF S = {} THEN 0
    ELSE LET path == CHOOSE x \in S : TRUE
         IN  files[path].size + SumSizes(S \ {path})

\* round(total_size / 1e6, 2), in hundredths of a megabyte
RoundMb(total) == (total + 5000) \div 10000

\* the answer of the handler the router resolved GET /health to:
\* stream_proxy.health_check globs *.AUDIO_FORMAT in CACHE_DIR (nothing when the
\* directory is not there) and sums the sizes; server.health_check looks at the
\* MCP process
HealthReply(handler) ==
    IF handler = "stream_proxy.health_check"
    THEN LET found == {path \in Paths : path.ext = AUDIO_FORMAT /\ files[path].exists}
         IN  [kind |-> "json", status |-> 200, cache_files |-> Cardinality(found),
              cache_mb |-> RoundMb(SumSizes(found))]
    ELSE IF mcp = "running"
         THEN [kind |-> "text", status |-> 200, text |-> "OK"]
         ELSE [kind |-> "text", status |-> 503, text |-> "MCP process not running"]

\* GET /health: the handler has no await, so it is one step of the event loop
Health ==
    /\ LoopFree
    /\ health' = HealthReply(Resolve(Routes(app), "/health"))
    /\ UNCHANGED <<normVars, selVars, casVars, cacheVars, brVars, rpcVars, app, mcp, sup, shut>>

\* restarts of the MCP pipe process in one run
MaxRestarts == 2

\* a mutant of CountRestart: the death is counted when it is seen and again
\* when the process is started
CountRestartTwice(n) == n + 2

\* restart_count += 1
CountRestart(n) == n + 1

\* a mutant of Resumes: the task goes on after cancel(), as it would if the
\* loop caught CancelledError
ResumesAnyway(s) == TRUE

\* the task resumes from its await: nobody has called cancel() on it
Resumes(s) == ~s.cancel

\* start_mcp_pipe before it has run: endpoint is whether MCP_ENDPOINT is set;
\* restarts counts the Popen calls of the monitor loop
NoSupervisor ==
    [pc |-> "none", endpoint |-> FALSE, restart_count |-> 0, restarts |-> 0,
     cancel |-> FALSE]

\* start_background_tasks: with MCP_ENDPOINT set it creates the task of
\* start_mcp_pipe, which has not run yet
SupervisorOf(a, endpoint) ==
    IF a = "server" /\ endpoint
    THEN [NoSupervisor EXCEPT !.pc = "created", !.endpoint = TRUE]
    ELSE NoSupervisor

\* start_mcp_pipe runs: Popen, the output task, restart_count = 0 and the first
\* pass of the monitor loop, up to await asyncio.sleep(10)
McpStarts ==
    /\ LoopFree
    /\ sup.pc = "created" /\ Resumes(sup)
    /\ mcp' = "running"
    /\ sup' = [sup EXCEPT !.pc = "sleep10"]
    /\ UNCHANGED <<normVars, selVars, casVars, cacheVars, brVars, rpcVars, app, health, shut>>

\* the MCP pipe process exits
McpExits ==
    /\ mcp = "running"
    /\ sup.restart_count < MaxRestarts
    /\ mcp' = "exited"
    /\ UNCHANGED <<normVars, selVars, casVars, cacheVars, brVars, rpcVars, app, health, sup, shut>>

\* sleep(10) is over and the monitor loop finds poll() is not None: it counts
\* the restart and sleeps 5 seconds (with the process alive it sleeps 10 again)
McpObserved ==
    /\ LoopFree
    /\ sup.pc = "sleep10" /\ Resumes(sup)
    /\ mcp = "exited"
    /\ sup' = [sup EXCEPT !.pc = "sleep5", !.restart_count = CountRestart(@)]
    /\ UNCHANGED <<normVars, selVars, casVars, cacheVars, brVars, rpcVars, app, mcp, health, shut>>

\* sleep(5) is over: Popen starts the process again, then sleep(10)
McpRestarts ==
    /\ LoopFree
    /\ sup.pc = "sleep5" /\ Resumes(sup)
    /\ mcp' = "running"
    /\ sup' = [sup EXCEPT !.pc = "sleep10", !.restarts = @ + 1]
    /\ UNCHANGED <<normVars, selVars, casVars, cacheVars, brVars, rpcVars, app, health, shut>>

\* cleanup_background_tasks up to its await: terminate() and wait() on the
\* process (blocking calls: no other coroutine runs meanwhile), then cancel() on
\* the task and "await app['mcp_task']"; without a task the cleanup is complete
CleanupBegins ==
    /\ LoopFree
    /\ app = "server" /\ shut = "no"
    /\ mcp' = IF mcp = "none" THEN "none" ELSE "exited"
    /\ IF sup.pc = "none"
       THEN shut' = "done" /\ UNCHANGED sup
       ELSE shut' = "awaiting" /\ sup' = [sup EXCEPT !.cancel = TRUE]
    /\ UNCHANGED <<normVars, selVars, casVars, cacheVars, brVars, rpcVars, app, health>>

\* the cancelled task is scheduled: CancelledError is raised at its await (or
\* before its first step) and nothing in start_mcp_pipe catches it
McpCancelled ==
    /\ LoopFree
    /\ sup.pc \in {"created", "sleep10", "sleep5"} /\ ~Resumes(sup)
    /\ sup' = [sup EXCEPT !.pc = "cancelled"]
    /\ UNCHANGED <<normVars, selVars, casVars, cacheVars, brVars, rpcVars, app, mcp, health, shut>>

\* "await app['mcp_task']" raises CancelledError, which cleanup passes over
CleanupEnds ==
    /\ LoopFree
    /\ shut = "awaiting" /\ sup.pc = "cancelled"
    /\ shut' = "done"
    /\ UNCHANGED <<normVars, selVars, casVars, cacheVars, brVars, rpcVars, app, mcp, health, sup>>

SrvIdle ==
    /\ app = "stream_proxy"
    /\ mcp = "none"
    /\ health = NoResponse
    /\ sup = NoSupervisor
    /\ shut = "no"

SrvInit ==
    /\ app \in Apps
    /\ mcp = "none"
    /\ health = NoResponse
    /\ \E endpoint \in BOOLEAN : sup = SupervisorOf(app, endpoint)
    /\ shut = "no"

(***************************************************************************)
(* JSON-RPC request loop: main of calculator.py and of music_streamer.py   *)
(* (the two loops are the same code; the tools behind tools/call differ).  *)
(* One iteration of "while True" has no await and no thread: it is one     *)
(* step.                                                                   *)
(***************************************************************************)
\* lines of stdin in one run
MaxLines == 3

\* the "id" member of a request: two values, and "none" for a request without
\* one (request.get("id") is None, written as null)
RpcIds == {"1", "2", "none"}

\* the "method" member: the five the loop knows, and one it does not
Methods == {"initialize", "tools/list", "tools/call", "notifications/initialized",
            "ping", "nope"}

\* the programs with this loop
Servers == {"calculator", "music_streamer"}

\* the "params" member of a tools/call request: an object naming a tool; no
\* object (null, an array); an object naming the calculator tool with a
\* python_expression that calls exit, e.g. random.__builtins__["exit"]()
ParamsOf(server) ==
    {"object", "null"} \cup (IF server = "calculator" THEN {"exit"} ELSE {})

\* a request object
RequestLines(server) ==
    {[kind |-> "object", method |-> m, id |-> i, params |-> "object"] :
        m \in Methods, i \in RpcIds}
    \cup {[kind |-> "object", method |-> "tools/call", id |-> i, params |-> x] :
              i \in RpcIds, x \in ParamsOf(server)}

\* a line of stdin: only whitespace; text that is no JSON; JSON that is no object
\* (an array, a number, null); a request object
Lines(server) ==
    {[kind |-> "blank"], [kind |-> "garbage"], [kind |-> "value"]}
    \cup RequestLines(server)

\* JSON-RPC error codes of the loop and of handle_call_tool
METHOD_NOT_FOUND == 0 - 32601
INTERNAL_ERROR == 0 - 32603
TOOL_ERROR == 0 - 32000

\* what one iteration writes to stdout: nothing, or one line; line is the number
\* of the input line read in that iteration
Silent == [none |-> TRUE]
ResultResponse(id, line) == [none |-> FALSE, id |-> id, kind |-> "result", code |-> 0, line |-> line]
ErrorResponse(id, code, line) == [none |-> FALSE, id |-> id, kind |-> "error", code |-> code, line |-> line]

\* the branches of the dispatch that leave response set: all but the
\* notifications/initialized branch, which is a "continue"
Answered(method) == method # "notifications/initialized"

\* handle_call_tool(request_id, params): params.get raises AttributeError when
\* params is no object; eval of an expression that calls exit raises SystemExit,
\* which is no Exception, so neither the except clause of the calculator tool nor
\* those of the loop catch it; else the tool gives a result, fails (error
\* -32000), or is not known
CallTool(id, params, line) ==
    IF params = "null" THEN {[end |-> "raise"]}
    ELSE IF params = "exit" THEN {[end |-> "exit"]}
    ELSE {[end |-> "return", response |-> r] :
            r \in {ResultResponse(id, line), ErrorResponse(id, TOOL_ERROR, line),
                   ErrorResponse(id, METHOD_NOT_FOUND, line)}}

\* the dispatch on method of a request object, after request_id was set to id
Dispatch(req, line) ==
    IF ~Answered(req.method) THEN {[end |-> "return", response |-> Silent]}
    ELSE IF req.method = "tools/call" THEN CallTool(req.id, req.params, line)
    ELSE IF req.method \in {"initialize", "tools/list", "ping"}
         THEN {[end |-> "return", response |-> ResultResponse(req.id, line)]}
    ELSE {[end |-> "return", response |-> ErrorResponse(req.id, METHOD_NOT_FOUND, line)]}

\* print(json.dumps(response)) when there is a response
Written(out, response) == IF response.none THEN out ELSE Append(out, response)

\* "except Exception": an error response with request_id, when the local
\* variable request_id exists
ExceptException(out, id, line) ==
    IF id.set THEN Append(out, ErrorResponse(id.v, INTERNAL_ERROR, line)) ELSE out

\* one iteration of the loop on the next line of stdin
RpcServe ==
    /\ rpcPc = "serving"
    /\ rpcIn.next <= Len(rpcIn.lines)
    /\ LET n == rpcIn.next
           line == rpcIn.lines[n]
       IN  /\ rpcIn' = [rpcIn EXCEPT !.next = n + 1]
           /\ CASE line.kind \in {"blank", "garbage"} ->
                      \* "continue" on an empty line; json.JSONDecodeError is only logged
                      UNCHANGED <<rpcOut, rpcId, rpcPc>>
                [] line.kind = "value" ->
                      \* request.get raises AttributeError before request_id is assigned
                      /\ rpcOut' = ExceptException(rpcOut, rpcId, n)
                      /\ UNCHANGED <<rpcId, rpcPc>>
                [] line.kind = "object" ->
                      /\ rpcId' = [set |-> TRUE, v |-> line.id]
                      /\ \E d \in Dispatch(line, n) :
                            /\ rpcOut' = CASE d.end = "return" -> Written(rpcOut, d.response)
                                           [] d.end = "raise" -> ExceptException(rpcOut, rpcId', n)
                                           [] d.end = "exit" -> rpcOut
                            /\ rpcPc' = IF d.end = "exit" THEN "stopped" ELSE rpcPc
    /\ UNCHANGED <<normVars, selVars, casVars, cacheVars, srvVars, brVars>>

\* readline() returns "" at the end of input: break
RpcEof ==
    /\ rpcPc = "serving"
    /\ rpcIn.next > Len(rpcIn.lines)
    /\ rpcPc' = "stopped"
    /\ UNCHANGED <<rpcIn, rpcOut, rpcId, normVars, selVars, casVars, cacheVars, srvVars, brVars>>

RpcInit ==
    /\ \E server \in Servers :
          rpcIn \in {[server |-> server, lines |-> l, next |-> 1] :
                       l \in UNION {[1..n -> Lines(server)] : n \in 0..MaxLines}}
    /\ rpcOut = <<>>
    /\ rpcId = [set |-> FALSE]
    /\ rpcPc = "serving"

\* no JSON-RPC server runs
RpcIdle ==
    /\ rpcIn = [server |-> "calculator", lines |-> <<>>, next |-> 1]
    /\ rpcOut = <<>>
    /\ rpcId = [set |-> FALSE]
    /\ rpcPc = "stopped"

-----------------------------------------------------------------------------
(***************************************************************************)
(* Specifications                                                          *)
(***************************************************************************)
\* the download/cache manager
Init == NormIdle /\ SelIdle /\ CasInit /\ CacheInit /\ SrvIdle /\ BrIdle /\ RpcIdle

Next ==
    \/ \E p \in Callers, r \in RawInputs : Call(p, r)
    \/ \E p \in Callers : Wake(p)
    \/ \E p \in Callers : ThreadOpens(p)
    \/ \E p \in Callers : ThreadWrites(p)
    \/ \E p \in Callers : YtdlpExits(p)
    \/ \E p \in Callers : OrphanFails(p)
    \/ \E p \in Callers : ProxyStreamStep(p)
    \/ \E p \in Callers : ApiStep(p)
    \/ \E p \in Callers : YtdlpStep(p)
    \/ \E p \in Callers : Cancel(p)
    \/ JanitorWakes
    \/ \E path \in Paths : JanitorStat(path)
    \/ \E path \in Paths : JanitorUnlink(path)
    \/ JanitorSleeps
    \/ Tick

Spec == Init /\ [][Next]_vars

\* the download/cache manager behind the HTTP handler of /audio and /stream
NextEndpoint ==
    \/ Next
    \/ \E p \in Callers : Respond(p)

SpecEndpoint == Init /\ [][NextEndpoint]_vars

\* the download/cache manager with its scheduling: the event loop runs every
\* coroutine that is ready (a woken waiter, a chain whose thread has ended, the
\* janitor's scan, which has no await), and every executor thread and yt-dlp
\* process ends (urlopen and subprocess.run have timeouts)
Fairness ==
    /\ \A p \in Callers :
          /\ WF_vars(Wake(p))
          /\ WF_vars(ProxyStreamStep(p))
          /\ WF_vars(ApiStep(p))
          /\ WF_vars(YtdlpStep(p))
          /\ WF_vars(ThreadOpens(p))
          /\ WF_vars(ThreadWrites(p))
          /\ WF_vars(YtdlpExits(p))
          /\ WF_vars(OrphanFails(p))
    /\ \A path \in Paths : WF_vars(JanitorStat(path)) /\ WF_vars(JanitorUnlink(path))
    /\ WF_vars(JanitorSleeps)

\* the calls contend for one lock: the video_id argument every call passes, a
\* URL of one identifier
SameIdInputs ==
    {r \in RawInputs : Len(r) > CANON_LEN}

NextLive ==
    \/ \E p \in Callers, r \in SameIdInputs : Call(p, r)
    \/ \E p \in Callers : Wake(p)
    \/ \E p \in Callers : ThreadOpens(p)
    \/ \E p \in Callers : ThreadWrites(p)
    \/ \E p \in Callers : YtdlpExits(p)
    \/ \E p \in Callers : OrphanFails(p)
    \/ \E p \in Callers : ProxyStreamStep(p)
    \/ \E p \in Callers : ApiStep(p)
    \/ \E p \in Callers : YtdlpStep(p)
    \/ \E p \in Callers : Cancel(p)
    \/ JanitorWakes
    \/ \E path \in Paths : JanitorStat(path)
    \/ \E path \in Paths : JanitorUnlink(path)
    \/ JanitorSleeps
    \/ Tick

SpecLive == Init /\ [][NextLive]_vars /\ Fairness

\* the sleep of the janitor ends: asyncio.sleep(1800) is a timer of the event loop
SleepEnds == WF_vars(JanitorWakes)

\* the cache manager with its scheduling and the janitor's timer
SpecSweep == Init /\ [][NextLive]_vars /\ Fairness /\ SleepEnds

\* the same in a cache directory whose files other processes can remove
NextJanitor ==
    \/ NextLive
    \/ \E path \in Paths : FileVanishes(path)

SpecJanitor == Init /\ [][NextJanitor]_vars /\ Fairness /\ SleepEnds

\* _bitrate_to_int applied to one value of the "bitrate" key
InitBitrate == NormIdle /\ SelIdle /\ CasInit /\ CacheInit /\ dirOk /\ SrvIdle /\ RpcIdle /\ BrInit

NextBitrate == Convert

SpecBitrate == InitBitrate /\ [][NextBitrate]_vars

\* a JSON-RPC server reading its standard input to the end: the loop is the only
\* thread of the process, so it always takes its next step
InitRpc == NormIdle /\ SelIdle /\ CasInit /\ CacheInit /\ dirOk /\ SrvIdle /\ BrIdle /\ RpcInit

NextRpc ==
    \/ RpcServe
    \/ RpcEof

SpecRpc == InitRpc /\ [][NextRpc]_vars /\ WF_vars(NextRpc)

\* the web application serving one client: a request to /audio, /stream or /url
\* calls ensure_audio_file and its handler answers; /health is asked at any time
Clients == {1}

InitServer == NormIdle /\ SelIdle /\ CasInit /\ CacheInit /\ SrvInit /\ BrIdle /\ RpcIdle

NextServer ==
    \/ \E p \in Clients, r \in SegmentInputs : Call(p, r)
    \/ \E p \in Clients : ThreadOpens(p)
    \/ \E p \in Clients : ThreadWrites(p)
    \/ \E p \in Clients : YtdlpExits(p)
    \/ \E p \in Clients : OrphanFails(p)
    \/ \E p \in Clients : ProxyStreamStep(p)
    \/ \E p \in Clients : ApiStep(p)
    \/ \E p \in Clients : YtdlpStep(p)
    \/ \E p \in Clients : Cancel(p)
    \/ JanitorWakes
    \/ \E path \in Paths : JanitorStat(path)
    \/ \E path \in Paths : JanitorUnlink(path)
    \/ JanitorSleeps
    \/ Tick
    \/ \E p \in Clients : Respond(p)
    \/ \E p \in Clients : RespondUrl(p)
    \/ Health
    \/ McpStarts
    \/ McpExits
    \/ McpObserved
    \/ McpRestarts

SpecServer == InitServer /\ [][NextServer]_vars

\* server.py with its supervisor of the MCP pipe process, from startup to the
\* end of its cleanup; the timers of asyncio.sleep fire and a cancelled task is
\* scheduled, while the process exits and the application shuts down at any time
NextSupervisor ==
    \/ McpStarts
    \/ McpExits
    \/ McpObserved
    \/ McpRestarts
    \/ CleanupBegins
    \/ McpCancelled
    \/ CleanupEnds
    \/ Health
    \/ Tick

SpecSupervisor ==
    /\ InitServer /\ [][NextSupervisor]_vars
    /\ WF_vars(McpStarts) /\ WF_vars(McpObserved) /\ WF_vars(McpRestarts)
    /\ WF_vars(McpCancelled) /\ WF_vars(CleanupEnds)

\* the cache manager at rest, for the specifications of the pure functions
CacheIdle == CacheInit /\ dirOk /\ SrvIdle /\ BrIdle /\ RpcIdle

\* the normalizer applied to each input
InitNorm == NormInit /\ SelIdle /\ CasInit /\ CacheIdle

NextNorm == Normalize

SpecNorm == InitNorm /\ [][NextNorm]_vars

\* one get_audio_stream call
InitCascade == NormIdle /\ SelIdle /\ CasInit /\ CacheIdle

NextCascade ==
    \/ CasCall
    \/ CasQueryPiped
    \/ CasQueryInvidious
    \/ CasRunYtdlp

SpecCascade == InitCascade /\ [][NextCascade]_vars

\* the selector applied to each list of renditions and tier
InitSelect == NormIdle /\ SelInit /\ CasInit /\ CacheIdle

NextSelect == Select

SpecSelect == InitSelect /\ [][NextSelect]_vars

-----------------------------------------------------------------------------
(***************************************************************************)
(* Properties of the download/cache manager (checked under Spec)           *)
(***************************************************************************)
\* the file at the target path of id
TargetFile(id) == files[_audio_path(id)]

\* p has just returned from ensure_audio_file
Returns(p) == pc[p] # "done" /\ pc'[p] = "done" /\ ret'[p] # "cancelled"

\* C1: at every moment at most one download (a strategy chain inside the lock, or
\* an executor thread or yt-dlp process a cancelled call left running, which
\* still writes to the cache path) is in flight for a normalized identifier.
C1_OneDownloadInFlight ==
    \A id \in Ids :
        Cardinality({p \in Callers : vid[p] = id /\ pc[p] \in ChainStages \cup OrphanStages}) <= 1

\* C2: of two concurrent calls for a never-before-seen identifier that both
\* returned, exactly one entered the strategy chain and both received the same path.
C2_ExactlyOneAttempt ==
    \A p, q \in Callers :
        (/\ order[p] = "first" /\ order[q] = "second" /\ vid[p] = vid[q]
         /\ pc[p] = "done" /\ pc[q] = "done"
         /\ ret[p] # "cancelled" /\ ret[q] # "cancelled")
        => (entered[p] # entered[q]) /\ result[p] = result[q]

\* C2 (amended): the second of two concurrent calls for an identifier, when it gets
\* past the lock-free check or is woken with the lock, returns the target path
\* without entering the chain if a file younger than the TTL is at the target;
\* otherwise it enters the chain, and only after the first call has left it.
C2_SecondAttemptOnlyIfStale ==
    [][\A q \in Callers :
          (/\ pc[q] \in {"idle", "waiting"} /\ pc'[q] \notin {"idle", "waiting"}
           /\ order'[q] = "second" /\ ret'[q] # "cancelled")
          => LET id == vid'[q]
                 f == TargetFile(id)
             IN  IF f.exists /\ now - f.mtime < CACHE_DURATION
                 THEN /\ pc'[q] = "done" /\ ~entered'[q]
                      /\ result'[q] = [ok |-> TRUE, path |-> [id |-> id, ext |-> "mp3"]]
                 ELSE /\ entered'[q] /\ pc'[q] = "piped_fetch"
                      /\ \A p \in Callers \ {q} : vid[p] = id => pc[p] \notin ChainStages
      ]_vars

\* the second caller waited for the lock and got the path the first one downloaded
C2_Witness ==
    \E p, q \in Callers :
        /\ order[p] = "first" /\ order[q] = "second" /\ vid[p] = vid[q]
        /\ pc[p] = "done" /\ ret[p] = "proxy" /\ entered[p]
        /\ pc[q] = "done" /\ ret[q] = "hit_wait" /\ ~entered[q]
        /\ result[p] = result[q] /\ result[q].ok

\* C3: at each cache check of ensure_audio_file (the lock-free one of a call that
\* got past mkdir, the one inside the lock when a waiter is woken) a file older than the
\* TTL is a miss, which leads to the strategy chain (or to the wait for the lock),
\* and a file younger than the TTL is returned without any strategy being started.
C3_TtlDecidesHitOrMiss ==
    [][\A p \in Callers :
          (/\ pc[p] \in {"idle", "waiting"} /\ pc'[p] # pc[p]
           /\ ret'[p] \notin {"cancelled", "mkdir"})
          => LET f == TargetFile(vid'[p])
             IN  /\ (f.exists /\ now - f.mtime > CACHE_DURATION)
                       => /\ pc'[p] \in {"waiting", "piped_fetch"}
                          /\ pc'[p] = "piped_fetch" <=> entered'[p]
                          /\ pc[p] = "waiting" => pc'[p] = "piped_fetch"
                 /\ (f.exists /\ now - f.mtime < CACHE_DURATION)
                       => /\ pc'[p] = "done" /\ result'[p].ok
                          /\ result'[p].path = [id |-> vid'[p], ext |-> "mp3"]
                          /\ ~entered'[p] /\ thr'[p] = "none"
      ]_vars

\* a file downloaded by one call has expired and a later call downloads it again
C3_Witness ==
    \E p, q \in Callers :
        /\ vid[p] = vid[q]
        /\ pc[p] = "done" /\ ret[p] \in {"proxy", "api", "ytdlp"}
        /\ pc[q] = "piped_fetch" /\ order[q] = "other"
        /\ TargetFile(vid[q]).exists /\ now - TargetFile(vid[q]).mtime > CACHE_DURATION

\* C4: when the first call for an identifier returns None because every strategy
\* failed, no file is at the identifier's target path.
C4_NoFileAfterFailure ==
    [][\A p \in Callers :
          (Returns(p) /\ ret'[p] = "exhausted" /\ order[p] = "first")
          => ~files'[_audio_path(vid[p])].exists
      ]_vars

\* C5: whenever ensure_audio_file returns a path, a file of non-zero size is at
\* that path at the moment of return.
C5_ReturnedPathIsNonEmptyFile ==
    [][\A p \in Callers :
          (Returns(p) /\ result'[p].ok)
          => /\ files'[result'[p].path].exists
             /\ files'[result'[p].path].size > 0
      ]_vars

\* C6: a call for X never returns X's path while the download another call runs
\* for X has opened the target and not finished writing it.
C6_NoPathBeforeDownloadCompletes ==
    [][\A q \in Callers :
          (Returns(q) /\ result'[q].ok)
          => ~\E p \in Callers \ {q} :
                 vid[p] = vid'[q] /\ pc[p] \in WriteStages /\ thr[p] = "open"
      ]_vars

\* C7: the lock of an identifier is held only by a call that is inside the
\* critical section: a call that returned (cache hit after wait, success, every
\* strategy failed) or was cancelled holds no lock.
C7_LockHeldOnlyInsideChain ==
    \A id \in DOMAIN locks :
        locks[id].holder # 0
        => /\ locks[id].holder \in Callers
           /\ pc[locks[id].holder] \in ChainStages
           /\ vid[locks[id].holder] = id

\* one call was cancelled inside the critical section, the next one failed with
\* every strategy, and the lock is free
C7_Witness ==
    \E p, q \in Callers :
        /\ vid[p] = vid[q]
        /\ ret[p] = "cancelled" /\ entered[p]
        /\ pc[q] = "done" /\ ret[q] = "exhausted"
        /\ locks[vid[p]].holder = 0

-----------------------------------------------------------------------------
(***************************************************************************)
(* Properties of the resolver cascade (checked under SpecCascade)          *)
(***************************************************************************)
\* C8: get_audio_stream queries the adapters in priority order (Piped, Invidious,
\* yt-dlp), queries nothing after an adapter gave a usable result, and returns
\* that result, whose source tag names the adapter that gave it; it returns None
\* only when all three failed.
C8_CascadePriorityOrder ==
    LET Rank(p) == CASE p = "piped" -> 1 [] p = "invidious" -> 2 [] p = "ytdlp" -> 3
        Tag(p) == IF p = "ytdlp" THEN "yt-dlp" ELSE p
        n == Len(casLog)
    IN  /\ \A i, j \in 1..n : i < j => Rank(casLog[i].p) <= Rank(casLog[j].p)
        /\ \A i \in 1..(n - 1) : ~casLog[i].usable
        /\ casPc = "done" =>
              IF casResult.ok
              THEN /\ casLog[n].usable
                   /\ casResult.source = Tag(casLog[n].p)
                   /\ casResult.stream_url # ""
              ELSE /\ ~casLog[n].usable
                   /\ {casLog[i].p : i \in 1..n} = {"piped", "invidious", "ytdlp"}

\* every Piped instance failed and Invidious gave the result
C8_Witness ==
    /\ casPc = "done" /\ casResult.ok /\ casResult.source = "invidious"
    /\ Cardinality({i \in 1..Len(casLog) : casLog[i].p = "piped"}) = NUM_PIPED
    /\ \A i \in 1..Len(casLog) : casLog[i].p # "ytdlp"

-----------------------------------------------------------------------------
(***************************************************************************)
(* Properties of the normalizer (checked under SpecNorm)                   *)
(***************************************************************************)
\* C9: an input of exactly 11 characters from [a-zA-Z0-9_-] is returned unchanged.
C9_CanonicalUnchanged ==
    normPc = "done" =>
        LET x == TextOf(normReq)
        IN  (Len(x) = 11 /\ \A i \in 1..11 : x[i] \in IdChars) => normOut = x

\* a canonical id that begins with a dash has been normalized
C9_Witness ==
    /\ normPc = "done" /\ normReq.shape = "bare" /\ ~normReq.pad
    /\ normReq.id[1] = "-" /\ normOut = normReq.id

\* C10: for a canonical id and each accepted URL shape (watch, short link, embed),
\* with or without query parameters before and after the id, extract_video_id of
\* the URL built from the id is the id.
C10_UrlRoundTrip ==
    (normPc = "done" /\ normReq.shape \in Shapes) => normOut = normReq.id

\* C11: extract_video_id is idempotent: applied to its own result it returns that
\* result, also when the result came from the last-11-characters fallback.
C11_NormalizeIdempotent ==
    normPc = "done" => extract_video_id(normOut) = normOut

\* x has the canonical shape: exactly 11 characters from [a-zA-Z0-9_-]
CanonicalShape(x) == Len(x) = 11 /\ \A i \in 1..11 : x[i] \in IdChars

\* no URL pattern matches x
NoPatternMatches(x) == \A n \in 1..Len(patterns) : Search(patterns[n], x) = <<>>

\* out is the last 11 characters of x, all of x when x is shorter
IsTailOf(out, x) ==
    /\ Len(out) = (IF Len(x) < 11 THEN Len(x) ELSE 11)
    /\ \A i \in 1..Len(out) : out[i] = x[Len(x) - Len(out) + i]

\* C33 as stated: extract_video_id returns a string for every input, and for an
\* input that is not canonical and matches no URL pattern the result is the last
\* 11 characters of the input (the whole input when it is shorter).
C33_FallbackIsTailOfInput ==
    normPc = "done" =>
        LET x == TextOf(normReq)
        IN  /\ DOMAIN normOut = 1..Len(normOut)
            /\ (~CanonicalShape(x) /\ NoPatternMatches(x)) => IsTailOf(normOut, x)

\* C33, amended: extract_video_id returns a string for every input, made of
\* characters of the input; when the input without its leading and trailing
\* whitespace is not canonical and matches no URL pattern, the result is the last
\* 11 characters of that stripped input (all of it when it is shorter).
C33_FallbackIsTailOfStripped ==
    normPc = "done" =>
        LET x == TextOf(normReq)
            v == Strip(x)
        IN  /\ DOMAIN normOut = 1..Len(normOut)
            /\ \A i \in 1..Len(normOut) : \E k \in 1..Len(x) : normOut[i] = x[k]
            /\ (~CanonicalShape(v) /\ NoPatternMatches(v)) => IsTailOf(normOut, v)

\* the fallback has cut a text that ends with a space: the result is the tail of
\* the stripped text, not of the input
C33_Witness ==
    /\ normPc = "done" /\ normReq.shape = "raw"
    /\ LET x == TextOf(normReq)
       IN  /\ Len(x) > 11 /\ x[Len(x)] = " "
           /\ NoPatternMatches(x)
           /\ IsTailOf(normOut, Strip(x)) /\ ~IsTailOf(normOut, x)

-----------------------------------------------------------------------------
(***************************************************************************)
(* Properties of the bitrate conversion (checked under SpecBitrate)        *)
(***************************************************************************)
\* the digits a string begins with
LeadingDigits(s) ==
    LET ends == {j \in 0..Len(s) : \A k \in 1..j : s[k] \in Digit}
    IN  SubSeq(s, 1, Max(ends))

\* the string has a "k" suffix (in either case)
HasKSuffix(s) == s # <<>> /\ s[Len(s)] \in {"k", "K"}

\* C34: _bitrate_to_int gives an integer for every bitrate value: 0 for a missing
\* value, the number itself for a number, and for a string the number its leading
\* digits spell, times 1000 when the string has a "k" suffix, and 0 when the
\* string cannot be parsed (it has no leading digits).
C34_BitrateFromLeadingDigits ==
    brPc = "done" =>
        CASE brIn.t = "none" -> brOut = 0
          [] brIn.t = "int"  -> brOut = brIn.n
          [] brIn.t = "str"  ->
                LET lead == LeadingDigits(brIn.s)
                IN  IF lead = <<>> THEN brOut = 0
                    ELSE brOut = DigitsToInt(lead) * (IF HasKSuffix(brIn.s) THEN 1000 ELSE 1)

-----------------------------------------------------------------------------
(***************************************************************************)
(* Properties of the selector (checked under SpecSelect)                   *)
(***************************************************************************)
\* the normalized bitrates of the renditions handed to _select_stream
SelBitrates == {_bitrate_to_int(selStreams[i].bitrate) : i \in 1..Len(selStreams)}

\* the returned value is one of the renditions handed in
SelOutIsRendition ==
    /\ selOut.ok
    /\ \E i \in 1..Len(selStreams) :
          /\ selStreams[i].bitrate = selOut.bitrate
          /\ selStreams[i].url = selOut.url
          /\ selStreams[i].type = selOut.type

\* C12: for a non-empty list, quality "low" returns a rendition whose normalized
\* bitrate is the minimum of the list's normalized bitrates, quality "high" one
\* whose normalized bitrate is the maximum.
C12_LowIsMinHighIsMax ==
    (selPc = "done" /\ selStreams # <<>>) =>
        /\ selQuality = "low" =>
              /\ SelOutIsRendition
              /\ \A b \in SelBitrates : _bitrate_to_int(selOut.bitrate) <= b
        /\ selQuality = "high" =>
              /\ SelOutIsRendition
              /\ \A b \in SelBitrates : _bitrate_to_int(selOut.bitrate) >= b

\* "low" and "high" have picked different renditions of a list given in
\* descending order
C12_Witness ==
    /\ selPc = "done" /\ Len(selStreams) = 2 /\ selQuality = "low"
    /\ _bitrate_to_int(selStreams[1].bitrate) > _bitrate_to_int(selStreams[2].bitrate)
    /\ selOut.ok /\ selOut.bitrate = selStreams[2].bitrate

\* C13: for a non-empty list, the default branch (quality "esp32" or "medium")
\* returns a rendition whose normalized bitrate is nearest to TARGET_ABR * 1000, and of two
\* equally near ones the one with the lower bitrate.
C13_DefaultIsClosestLowerOnTie ==
    (selPc = "done" /\ selStreams # <<>> /\ selQuality \in {"esp32", "medium"}) =>
        LET t == TARGET_ABR * 1000
            Far(b) == IF b >= t THEN b - t ELSE t - b
            out == _bitrate_to_int(selOut.bitrate)
        IN  /\ SelOutIsRendition
            /\ \A b \in SelBitrates : Far(out) <= Far(b)
            /\ \A b \in SelBitrates : Far(b) = Far(out) => out <= b

\* 192000 and 64000 are equally near, given in that order, and 64000 is returned
C13_Witness ==
    /\ selPc = "done" /\ selQuality = "medium" /\ Len(selStreams) = 2
    /\ selStreams[1].bitrate = IntBitrate(192000)
    /\ selStreams[2].bitrate = IntBitrate(64000)
    /\ selOut.ok /\ selOut.bitrate = IntBitrate(64000)

-----------------------------------------------------------------------------
(***************************************************************************)
(* Properties of the frontend adapters (checked under SpecCascade)         *)
(***************************************************************************)
\* C14: whatever the quality tier, when an instance of a frontend adapter answers
\* with an empty list of renditions the selector returns no selection, the adapter
\* returns nothing from that instance and goes on to its next instance (after its
\* last instance it returns None and the cascade goes on to the next adapter).
C14_EmptyListFailsInstance ==
    \A k \in 1..Len(casLog) :
        casLog[k].sel = "empty" =>
            LET p == casLog[k].p
                i == casLog[k].i
                last == IF p = "piped" THEN NUM_PIPED ELSE NUM_INVIDIOUS
                follows == IF i < last THEN [p |-> p, i |-> i + 1]
                           ELSE [p |-> IF p = "piped" THEN "invidious" ELSE "ytdlp",
                                 i |-> IF p = "piped" THEN 1 ELSE 0]
            IN  /\ ~casLog[k].returned
                /\ k < Len(casLog) =>
                      casLog[k + 1].p = follows.p /\ casLog[k + 1].i = follows.i
                /\ k = Len(casLog) =>
                      /\ casPc = follows.p
                      /\ follows.p # "ytdlp" => casInst = follows.i

\* the first Piped instance answered with an empty list and the second one gave
\* the result
C14_Witness ==
    /\ casPc = "done" /\ casResult.ok /\ casResult.source = "piped"
    /\ Len(casLog) = 2
    /\ casLog[1].sel = "empty" /\ casLog[2].sel = "some" /\ casLog[2].i = 2

\* C25: no adapter raises: when the request to an instance fails (network error,
\* bad status, unparseable body, timeout) the adapter returns nothing from that
\* instance, and when yt-dlp fails or times out its adapter returns None; when no
\* adapter gave a usable result get_audio_stream returns None.
C25_AdaptersNeverRaise ==
    /\ casPc # "raised"
    /\ \A k \in 1..Len(casLog) :
          casLog[k].sel = "err" => ~casLog[k].returned /\ ~casLog[k].usable
    /\ (casPc = "done" /\ \A k \in 1..Len(casLog) : ~casLog[k].usable)
          => casResult = [ok |-> FALSE]

\* the request to every instance of both frontends failed, yt-dlp failed, and
\* get_audio_stream returned None
C25_Witness ==
    /\ casPc = "done" /\ ~casResult.ok
    /\ Len(casLog) = NUM_PIPED + NUM_INVIDIOUS + 1
    /\ \A k \in 1..(Len(casLog) - 1) : casLog[k].sel = "err"

\* C26: a frontend adapter queries its instances in list order, each at most once
\* (the queries of an adapter are its instances 1, 2, ... without gap or
\* repetition), and it stops exactly at the first instance whose answer holds a
\* usable audio rendition, one with a stream url: it returns from that instance,
\* queries no instance after it, and does not stop at an instance without one.
C26_StopsAtFirstUsableInstance ==
    \A k \in 1..Len(casLog) :
        casLog[k].p \in {"piped", "invidious"} =>
            /\ casLog[k].i = IF k > 1 /\ casLog[k - 1].p = casLog[k].p
                             THEN casLog[k - 1].i + 1 ELSE 1
            /\ casLog[k].hasUsable
                  => /\ casLog[k].returned
                     /\ \A j \in (k + 1)..Len(casLog) : casLog[j].p # casLog[k].p
            /\ casLog[k].returned => casLog[k].hasUsable /\ casLog[k].usable

-----------------------------------------------------------------------------
(***************************************************************************)
(* Properties of the get_stream_url tool (checked under SpecSelect: the    *)
(* tool's format is the quality the selector is called with)               *)
(***************************************************************************)
\* C15: with format "best" the rendition selected from a non-empty list has the
\* highest normalized bitrate of the list; with format "esp32" it has the one
\* nearest to 128 kbit/s.
C15_BestIsHighestBitrate ==
    (selPc = "done" /\ selStreams # <<>>) =>
        LET out == _bitrate_to_int(selOut.bitrate)
            Far(b) == IF b >= 128000 THEN b - 128000 ELSE 128000 - b
        IN  /\ selQuality = "best" =>
                  selOut.ok /\ \A b \in SelBitrates : out >= b
            /\ selQuality = "esp32" =>
                  selOut.ok /\ \A b \in SelBitrates : Far(out) <= Far(b)

-----------------------------------------------------------------------------
(***************************************************************************)
(* Properties of the janitor (checked under Spec)                          *)
(***************************************************************************)
\* the janitor has looked at every file its glob listed
CycleOver == janitor.pc = "scan" /\ janitor.todo = {} /\ janitor.doomed = {}

\* C16: when a janitor cycle is over, a file that had mtime = now - TTL - 1 when
\* the cycle began is gone (no file with that mtime is at its path), and a file
\* that had mtime = now - TTL + 1 still exists.
C16_JanitorRemovesExpiredOnly ==
    CycleOver =>
        \A e \in janitor.listed :
            /\ janitor.at - e.mtime = CACHE_DURATION + 1
                  => ~(files[e.path].exists /\ files[e.path].mtime = e.mtime)
            /\ janitor.at - e.mtime = CACHE_DURATION - 1
                  => files[e.path].exists

\* a cycle is over that found one file of each age: the older is removed, the
\* younger is there
C16_Witness ==
    /\ CycleOver
    /\ \E e1, e2 \in janitor.listed :
          /\ janitor.at - e1.mtime = CACHE_DURATION + 1 /\ ~files[e1.path].exists
          /\ janitor.at - e2.mtime = CACHE_DURATION - 1 /\ files[e2.path].exists

\* C17: the janitor never deletes a file that a download has just written: a file
\* it unlinks is not younger than the TTL at the moment of the unlink.
C17_JanitorSparesFreshDownload ==
    [][\A path \in Paths :
          (janitor' # janitor /\ files[path].exists /\ ~files'[path].exists)
          => ~(now - files[path].mtime < CACHE_DURATION)
      ]_vars

-----------------------------------------------------------------------------
(***************************************************************************)
(* Properties of abandoned requests and of the cache directory (checked    *)
(* under Spec)                                                             *)
(***************************************************************************)
\* C18: a call cancelled while its download runs does not end the download, and
\* the download goes on under the lock: as long as the thread (or yt-dlp process)
\* of the cancelled call runs, that call holds the lock of its identifier, so no
\* other call for the identifier starts a download.
C18_AbandonedDownloadKeepsLock ==
    \A p \in Callers :
        (ret[p] = "cancelled" /\ pc[p] \in OrphanStages)
        => /\ locks[vid[p]].holder = p
           /\ \A q \in Callers \ {p} : vid[q] = vid[p] => pc[q] \notin ChainStages

\* C19: when the cache directory cannot be created, a call of ensure_audio_file
\* returns None at once: it adds no entry to download_locks, takes no lock and
\* starts no strategy.
C19_NoCacheDirFailsEarly ==
    [][\A p \in Callers :
          (~dirOk /\ pc[p] = "idle" /\ pc'[p] # "idle")
          => /\ pc'[p] = "done" /\ result'[p] = [ok |-> FALSE]
             /\ locks' = locks /\ DOMAIN locks' = {}
             /\ ~entered'[p] /\ thr'[p] = "none"
             /\ files' = files
      ]_vars

\* every call has returned None for want of the cache directory
C19_Witness ==
    /\ ~dirOk
    /\ \A p \in Callers : pc[p] = "done" /\ ret[p] = "mkdir" /\ ~result[p].ok
    /\ DOMAIN locks = {}

-----------------------------------------------------------------------------
(***************************************************************************)
(* Properties of the HTTP endpoints (checked under SpecEndpoint)           *)
(***************************************************************************)
\* C20: /audio/{id} and /stream/{id} answer with the cached file exactly when
\* ensure_audio_file returned a path, and otherwise with a JSON error of a 5xx
\* status whose message is the fixed generic text.
C20_FileIffPathElseGenericError ==
    \A p \in Callers :
        reply[p].kind # "none" =>
            /\ result[p].ok <=> reply[p].kind = "file"
            /\ result[p].ok => reply[p].path = result[p].path
            /\ ~result[p].ok =>
                  /\ reply[p].kind = "json"
                  /\ reply[p].status \in 500..599
                  /\ reply[p].error = "Failed to prepare audio file"

-----------------------------------------------------------------------------
(***************************************************************************)
(* Properties of the strategy chain (checked under Spec)                   *)
(***************************************************************************)
\* the strategy p awaits has reported success: the proxy stream download left a
\* non-empty target, an API function returned the target, yt-dlp returned 0 and
\* left a file of the identifier
StrategySucceeded(p) ==
    \/ /\ pc[p] \in {"piped_dl", "inv_dl"} /\ thr[p] = "ok"
       /\ TargetFile(vid[p]).exists /\ TargetFile(vid[p]).size > 0
    \/ pc[p] \in {"y2mate", "yt1s"} /\ thr[p] = "ok"
    \/ /\ pc[p] = "ytdlp" /\ thr[p] = "ok"
       /\ \E path \in Paths : path.id = vid[p] /\ files[path].exists

\* p goes on inside ensure_audio_file (it is not cancelled)
ChainStep(p) == pc[p] \in ChainStages /\ pc'[p] # pc[p] /\ ret'[p] # "cancelled"

\* C23: inside the lock the chain begins with the proxy-stream download, goes from
\* a strategy only to the next one in the order proxy stream, scraping API, yt-dlp,
\* and only when the strategy it leaves has not reported success; when a strategy
\* reports success the call returns the target and attempts nothing more.
C23_StrategiesInFixedOrder ==
    [][\A p \in Callers :
          LET Rank(stage) == CASE stage \in {"piped_fetch", "piped_dl", "inv_fetch", "inv_dl"} -> 1
                               [] stage \in {"y2mate", "yt1s"} -> 2
                               [] stage = "ytdlp" -> 3
          IN  /\ (pc[p] \in {"idle", "waiting"} /\ pc'[p] \in ChainStages)
                    => Rank(pc'[p]) = 1
              /\ ChainStep(p) =>
                    IF StrategySucceeded(p)
                    THEN pc'[p] = "done" /\ result'[p].ok /\ thr'[p] = "none"
                    ELSE /\ pc'[p] \in ChainStages \cup {"done"}
                         /\ pc'[p] \in ChainStages
                               => Rank(pc'[p]) \in {Rank(pc[p]), Rank(pc[p]) + 1}
                         /\ pc'[p] = "done" => Rank(pc[p]) = 3 /\ ~result'[p].ok
      ]_vars

\* the proxy-stream and the API strategy failed and yt-dlp gave the file
C23_Witness ==
    \E p \in Callers : pc[p] = "done" /\ ret[p] = "ytdlp" /\ result[p].ok

\* C24: when the strategy a call awaits has failed (a falsy result, an exception
\* or a timeout of its thread), the call goes on with the next stage of the chain;
\* it never leaves ensure_audio_file by an exception, and it returns None only
\* from the last strategy, when the whole chain is exhausted.
C24_StrategyFailureRecovered ==
    [][\A p \in Callers :
          (ChainStep(p) /\ ~StrategySucceeded(p))
          => /\ ret'[p] # "raised"
             /\ IF pc[p] = "ytdlp"
                THEN pc'[p] = "done" /\ ret'[p] = "exhausted" /\ result'[p] = [ok |-> FALSE]
                ELSE pc'[p] \in ChainStages /\ thr'[p] = "run" /\ ret'[p] = "none"
      ]_vars

\* every strategy of a call failed, one of them after it had opened the target,
\* and the call returned None
C24_Witness ==
    \E p \in Callers :
        /\ pc[p] = "done" /\ ret[p] = "exhausted" /\ ~result[p].ok
        /\ order[p] = "first" /\ TargetFile(vid[p]).exists

\* C27: per identifier the cache goes NoEntry -> Downloading -> Ready: a call
\* enters the strategy chain for X only when X has no file or a file whose TTL has
\* expired, never while the file of X is fresh; and when the call leaves the chain
\* it leaves X either Ready (it returns the path, and the downloaded file is
\* there) or, every strategy having failed, without a file.
C27_NoEntryDownloadingReady ==
    [][\A p \in Callers :
          /\ (pc[p] \in {"idle", "waiting"} /\ pc'[p] \in ChainStages)
                => LET f == TargetFile(vid'[p])
                   IN  ~f.exists \/ now - f.mtime >= CACHE_DURATION
          /\ (ChainStep(p) /\ pc'[p] = "done")
                => LET f == files'[_audio_path(vid[p])]
                   IN  IF result'[p].ok
                       THEN f.exists /\ f.size > 0
                       ELSE ~f.exists
      ]_vars

\* C28: downloads for different identifiers run in parallel: a call for Y that
\* misses the cache waits only when another call for Y itself is in the strategy
\* chain or waits for Y's lock; whatever calls for other identifiers do, it
\* enters the chain at once.
C28_DifferentIdsInParallel ==
    [][\A q \in Callers :
          (pc[q] = "idle" /\ pc'[q] \notin {"idle", "done"})
          => LET busy == \E p \in Callers \ {q} :
                            vid[p] = vid'[q] /\ pc[p] \in ChainStages \cup {"waiting"}
             IN  /\ pc'[q] = "waiting" => busy
                 /\ ~busy => pc'[q] \in ChainStages /\ locks'[vid'[q]].holder = q
      ]_vars

\* two calls for different identifiers are both inside the strategy chain, each
\* holding the lock of its identifier
C28_Witness ==
    \E p, q \in Callers :
        /\ vid[p] # vid[q]
        /\ pc[p] \in ChainStages /\ pc[q] \in ChainStages
        /\ locks[vid[p]].holder = p /\ locks[vid[q]].holder = q

\* C29: download_locks is append-only: an identifier that has an entry keeps it,
\* and the entry stays the same lock: its holder changes only by the holder's own
\* release, and a waiter leaves its queue only by getting the lock or by being
\* cancelled.
C29_LockRegistryAppendOnly ==
    [][/\ DOMAIN locks \subseteq DOMAIN locks'
       /\ \A id \in DOMAIN locks :
             LET h == locks[id].holder
                 ws == locks[id].waiters
                 ws2 == locks'[id].waiters
             IN  /\ (h # 0 /\ locks'[id].holder # h)
                       => locks'[id].holder = 0 /\ pc'[h] \notin ChainStages
                 /\ \A k \in 1..Len(ws) :
                       \/ \E j \in 1..Len(ws2) : ws2[j] = ws[k]
                       \/ locks'[id].holder = ws[k]
                       \/ pc'[ws[k]] = "done"
      ]_vars

\* calls for two identifiers have returned and both entries are in the registry
C29_Witness ==
    /\ Cardinality(DOMAIN locks) = 2
    /\ \A p \in Callers : pc[p] = "done" /\ entered[p]

-----------------------------------------------------------------------------
(***************************************************************************)
(* Termination (checked under SpecLive)                                    *)
(***************************************************************************)
\* C30: every call of ensure_audio_file that has begun eventually returns (or, for
\* a cancelled call, ends), and a call that waits for the lock of its identifier
\* eventually stops waiting: it gets the lock, also when the holder before it
\* returned None or was cancelled.
C30_EveryCallReturns ==
    \A p \in Callers :
        /\ (pc[p] \notin {"idle", "done"}) ~> (pc[p] = "done")
        /\ (pc[p] = "waiting") ~> (pc[p] # "waiting")

\* a call that waited for the lock while the holder failed with every strategy
\* has got the lock and has returned
C30_Witness ==
    \E p, q \in Callers :
        /\ vid[p] = vid[q] /\ order[q] = "second"
        /\ pc[p] = "done" /\ ret[p] = "exhausted"
        /\ pc[q] = "done" /\ entered[q] /\ ret[q] \in {"proxy", "api", "ytdlp", "exhausted"}

-----------------------------------------------------------------------------
(***************************************************************************)
(* Properties of the web application (checked under SpecServer)            *)
(***************************************************************************)
\* the handler of /url/{id} has answered the request of p
UrlAnswered(p) == reply[p].kind = "url" \/ reply[p] = UrlError

C22_HealthAlwaysJsonSummary ==
    health # NoResponse =>
        /\ health.kind = "json"
        /\ health.status \in 200..299
        /\ health.cache_files \in 0..Cardinality(Paths)
        /\ health.cache_mb >= 0

(***************************************************************************)
(* The janitor task over time (checked under SpecJanitor and SpecSweep)    *)
(***************************************************************************)
\* C31: the janitor runs forever: every cycle of clear_expired_cache ends in the
\* sleep the next cycle begins from, whatever happens during the cycle, a listed
\* file that disappears before it is examined or deleted included.
C31_JanitorRunsForever ==
    (janitor.pc = "scan") ~> (janitor.pc = "sleep")

\* C32: the cache cleans itself: a file of the cache directory, whatever its
\* extension, whose age exceeds the TTL while the janitor has a cycle to come is
\* eventually deleted, unless a download refreshes it.
C32_ExpiredFilesEventuallyDeleted ==
    \A path \in Paths :
        (/\ files[path].exists /\ now - files[path].mtime > CACHE_DURATION
         /\ janitor.pc = "sleep" /\ janitor.cycles < MaxCycles)
        ~> (~files[path].exists \/ now - files[path].mtime <= CACHE_DURATION)

-----------------------------------------------------------------------------
(***************************************************************************)
(* Properties of the JSON-RPC request loop (checked under SpecRpc)         *)
(***************************************************************************)
\* the responses written for input line n
ResponsesTo(n) == {i \in 1..Len(rpcOut) : rpcOut[i].line = n}

\* C35: every response written carries the id of the line that caused it: the id
\* of the request when the line is a request object, and never the id of an
\* earlier request when processing the line raised before it had an id (such a
\* line has no id: null).
C35_ResponseCarriesOwnId ==
    \A i \in 1..Len(rpcOut) :
        LET line == rpcIn.lines[rpcOut[i].line]
        IN  rpcOut[i].id = (IF line.kind = "object" THEN line.id ELSE "none")

\* C36: every request object whose method is not notifications/initialized gets
\* exactly one response (an error -32601 when the method is unknown),
\* notifications/initialized and a line that is no JSON get none, the loop stops
\* only at the end of the input, and it reaches the end of the input.
C36_OneResponsePerRequest ==
    /\ [](\A n \in 1..(rpcIn.next - 1) :
            LET line == rpcIn.lines[n]
            IN  /\ (line.kind = "object" /\ line.method # "notifications/initialized")
                       => Cardinality(ResponsesTo(n)) = 1
                /\ (line.kind = "object" /\ line.method = "nope")
                       => \A i \in ResponsesTo(n) :
                              rpcOut[i].kind = "error" /\ rpcOut[i].code = METHOD_NOT_FOUND
                /\ (line.kind = "object" /\ line.method = "notifications/initialized")
                       => ResponsesTo(n) = {}
                /\ line.kind = "garbage" => ResponsesTo(n) = {})
    /\ [](rpcPc = "stopped" => rpcIn.next > Len(rpcIn.lines))
    /\ <>(rpcPc = "stopped")

-----------------------------------------------------------------------------
(***************************************************************************)
(* Properties of the supervisor of server.py (checked under SpecSupervisor)*)
(***************************************************************************)
\* C37: with MCP_ENDPOINT set, the supervisor restarts the process every time it
\* is seen dead: while the application is not shutting down, a dead process is
\* eventually followed by a running one, and restart_count is the number of
\* restarts, one ahead of it between the sight of a death and the restart.
C37_DeadChildRestarted ==
    /\ [](shut = "no" =>
            sup.restart_count = sup.restarts + (IF sup.pc = "sleep5" THEN 1 ELSE 0))
    /\ (sup.endpoint /\ mcp = "exited" /\ shut = "no") ~> (mcp = "running" \/ shut # "no")

\* the process has died twice and runs again, restart_count = 2
C37_Witness ==
    /\ sup.endpoint /\ shut = "no" /\ mcp = "running"
    /\ sup.restart_count = 2 /\ sup.restarts = 2

\* C38: from the moment cleanup_background_tasks has terminated the process, and
\* so after it has completed, no supervised process runs and the supervisor
\* starts none: the monitor loop does not restart the process between its
\* termination and the cancellation of the task, and never afterwards.
C38_NoChildAfterCleanup ==
    /\ shut # "no" => mcp # "running"
    /\ shut = "done" => sup.pc \in {"none", "cancelled"}

\* the cleanup has completed while a restart was pending: the process had died,
\* the monitor loop had counted the restart and slept before Popen
C38_Witness ==
    /\ shut = "done" /\ sup.pc = "cancelled" /\ mcp = "exited"
    /\ sup.restart_count = sup.restarts + 1

=============================================================================
